---------------------------- MODULE Spec2Model ----------------------------
(***************************************************************************)
(* A model of btw-backup: the synchronization-state ledger (SyncState),    *)
(* the offsite syncer built on it (S3), and the full/incremental decision  *)
(* of the rdiff backup command.                                            *)
(*                                                                         *)
(* The ledger file is modelled as the sequence of characters the code      *)
(* writes and reads back; a path is a sequence of characters.  A multi-    *)
(* character unit that the code never splits (the ISO timestamp, the kind  *)
(* "push"/"sync") is one element of the sequence.                          *)
(***************************************************************************)
EXTENDS Integers, Sequences, FiniteSets, TLC

\* ------------------------------------------------------------ characters
SP == " "
CR == "CR"
LF == "LF"
\* now.isoformat(): one token, it holds no space and no line terminator
TS == "T"

\* the outcome of a call that returns normally
OK == "ok"

\* ----------------------------------------------------------------- paths
Root == <<>>
PathDir == <<"d">>
PathAbs == <<"/", "d">>

\* the paths the callers of the ledger pass in: the empty path, a plain
\* relative path and an absolute path
Paths == {Root, PathDir, PathAbs}

Kinds == {"push", "sync"}
Signs == {"+", "-"}

\* the two processes that may open the same ledger file
Procs == {1, 2}

\* the number of records the ledger file may hold before the callers stop
\* calling; a run of S3 that has started goes on to its end
MaxRecords == 2

EmptyState == [push |-> <<>>, sync |-> <<>>]
\* self._cached_raw_current_state: None, or the two dicts
NoCache == [loaded |-> FALSE, state |-> EmptyState]
Cached(state) == [loaded |-> TRUE, state |-> state]

Range(s) == {s[i] : i \in 1..Len(s)}

\* --------------------------------------------------- the ordered "sets"
\* target[path] = 1 on a dict: a key already present keeps its position
DictSet(target, path) ==
    IF path \in Range(target) THEN target ELSE Append(target, path)

\* del target[path] on a dict whose key is present
DictDel(target, path) == SelectSeq(target, LAMBDA x : x # path)

\* list(v.keys()) in current_state: the keys in the order the dict keeps
\* them, which is the order in which they were set
list_keys(target) == target

\* -------------------------------------------------- the local filesystem
FsKinds == {"none", "file", "dir"}

\* os.path.join(root, path) looked up in the filesystem under ROOT_PATH
FsKind(tree, path) == IF path \in DOMAIN tree THEN tree[path] ELSE "none"

\* S3.check_sync: "ok", or the ValueError it raises
check_sync(tree, path) ==
    IF FsKind(tree, path) = "dir" THEN OK ELSE "ValueError"

\* an emitter nobody listens to
emitNobody(watched, under, event, path) == OK

\* self._ee.emit(kind, path): the observers registered are S3's, on 'sync'
emit(observed, tree, event, path) ==
    IF observed /\ event = <<"sync">> THEN check_sync(tree, path) ELSE OK

\* ------------------------------------------------------ lines of the file
IndexOf(s, c) ==
    IF \E i \in 1..Len(s) : s[i] = c
    THEN CHOOSE i \in 1..Len(s) : s[i] = c /\ \A j \in 1..(i - 1) : s[j] # c
    ELSE 0

\* "{0} {1} {2}\n".format(now.isoformat(), op, path)
FormatLine(op, path) == <<TS, SP>> \o op \o <<SP>> \o path \o <<LF>>

\* for line in self._file: the file cut after each line feed
RECURSIVE FileLines(_)
FileLines(bytes) ==
    IF bytes = <<>> THEN <<>>
    ELSE LET i == IndexOf(bytes, LF)
         IN  IF i = 0 THEN <<bytes>>
             ELSE <<SubSeq(bytes, 1, i)>> \o FileLines(SubSeq(bytes, i + 1, Len(bytes)))

\* line.rstrip("\r\n")
RECURSIVE RStrip(_)
RStrip(line) ==
    IF line # <<>> /\ line[Len(line)] \in {CR, LF}
    THEN RStrip(SubSeq(line, 1, Len(line) - 1))
    ELSE line

\* line.split(" ", 2): at most two cuts, at the first two spaces
Split2(line) ==
    LET i == IndexOf(line, SP)
    IN  IF i = 0 THEN <<line>>
        ELSE LET rest == SubSeq(line, i + 1, Len(line))
                 j == IndexOf(rest, SP)
             IN  IF j = 0 THEN <<SubSeq(line, 1, i - 1), rest>>
                 ELSE <<SubSeq(line, 1, i - 1), SubSeq(rest, 1, j - 1),
                        SubSeq(rest, j + 1, Len(rest))>>

\* a test that lets every path through
IsAbsoluteNever(path) == FALSE

IsAbsolute(path) == path # <<>> /\ path[1] = "/"

\* ------------------------------------------------ SyncState._update_state

\* op[0], the absolute-path test and the emit, which run before the state
\* is looked at (and so before a first read of the file)
BeforeTarget(observed, tree, op, path) ==
    IF op = <<>> THEN [result |-> "IndexError", emitted |-> FALSE]
    ELSE IF IsAbsolute(path) THEN [result |-> "ValueError", emitted |-> FALSE]
    ELSE IF op[1] = "+"
         THEN [result |-> emit(observed, tree, Tail(op), path), emitted |-> TRUE]
         ELSE [result |-> OK, emitted |-> FALSE]

\* a branch on "-" that removes the path if it is there (target.pop(path,
\* None)) in place of del target[path]
OnTargetTolerant(state, op, path) ==
    LET suffix == Tail(op)
    IN  IF suffix \notin {<<"push">>, <<"sync">>}
        THEN [state |-> state, result |-> "KeyError"]
        ELSE LET kind == suffix[1]
                 target == state[kind]
             IN  IF op[1] = "+"
                 THEN [state |-> [state EXCEPT ![kind] = DictSet(target, path)],
                       result |-> OK]
                 ELSE IF op[1] = "-"
                 THEN [state |-> [state EXCEPT ![kind] = DictDel(target, path)],
                       result |-> OK]
                 ELSE [state |-> state, result |-> "ValueError"]

\* a branch that takes every sign but "+" for "-"
OnTargetElse(state, op, path) ==
    LET suffix == Tail(op)
    IN  IF suffix \notin {<<"push">>, <<"sync">>}
        THEN [state |-> state, result |-> "KeyError"]
        ELSE LET kind == suffix[1]
                 target == state[kind]
             IN  IF op[1] = "+"
                 THEN [state |-> [state EXCEPT ![kind] = DictSet(target, path)],
                       result |-> OK]
                 ELSE IF path \in Range(target)
                 THEN [state |-> [state EXCEPT ![kind] = DictDel(target, path)],
                       result |-> OK]
                 ELSE [state |-> state, result |-> "KeyError"]

\* target = self._raw_current_state[op_suffix] and the branch on op_prefix
OnTarget(state, op, path) ==
    LET suffix == Tail(op)
    IN  IF suffix \notin {<<"push">>, <<"sync">>}
        THEN [state |-> state, result |-> "KeyError"]
        ELSE LET kind == suffix[1]
                 target == state[kind]
             IN  IF op[1] = "+"
                 THEN [state |-> [state EXCEPT ![kind] = DictSet(target, path)],
                       result |-> OK]
                 ELSE IF op[1] = "-"
                 THEN IF path \in Range(target)
                      THEN [state |-> [state EXCEPT ![kind] = DictDel(target, path)],
                            result |-> OK]
                      ELSE [state |-> state, result |-> "KeyError"]
                 ELSE [state |-> state, result |-> "ValueError"]

\* _update_state(op, path, reading=True) on the state being rebuilt
update_state_reading(state, observed, tree, op, path) ==
    LET b == BeforeTarget(observed, tree, op, path)
    IN  IF b.result # OK
        THEN [state |-> state, result |-> b.result]
        ELSE OnTarget(state, op, path)

\* the loop of _raw_current_state over the lines of the file; an exception
\* leaves the loop with the state built so far
RECURSIVE ReadLines(_, _, _, _)
ReadLines(lines, state, observed, tree) ==
    IF lines = <<>> THEN [state |-> state, result |-> OK]
    ELSE LET parts == Split2(RStrip(Head(lines)))
         IN  IF Len(parts) # 3
             THEN [state |-> state, result |-> "ValueError"]
             ELSE LET u == update_state_reading(state, observed, tree,
                                                parts[2], parts[3])
                  IN  IF u.result # OK THEN u
                      ELSE ReadLines(Tail(lines), u.state, observed, tree)

\* SyncState._raw_current_state: the cached state, or the file read from
\* its start into a state that is cached before the first line is read
raw_current_state(cached, bytes, observed, tree) ==
    IF cached.loaded
    THEN [state |-> cached.state, result |-> OK]
    ELSE ReadLines(FileLines(bytes), EmptyState, observed, tree)

\* _update_state(op, path): what one call of the four methods leaves in the
\* cache and in the file, its outcome and whether it emitted its event
update_state(cached, bytes, observed, tree, op, path) ==
    LET b == BeforeTarget(observed, tree, op, path)
    IN  IF b.result # OK
        THEN [cache |-> cached, bytes |-> bytes, wrote |-> FALSE,
              result |-> b.result, emitted |-> b.emitted]
        ELSE LET ld == raw_current_state(cached, bytes, observed, tree)
             IN  IF ld.result # OK
                 THEN [cache |-> Cached(ld.state), bytes |-> bytes, wrote |-> FALSE,
                       result |-> ld.result, emitted |-> b.emitted]
                 ELSE LET t == OnTarget(ld.state, op, path)
                      IN  IF t.result # OK
                          THEN [cache |-> Cached(ld.state), bytes |-> bytes,
                                wrote |-> FALSE, result |-> t.result,
                                emitted |-> b.emitted]
                          ELSE [cache |-> Cached(t.state),
                                bytes |-> bytes \o FormatLine(op, path),
                                wrote |-> TRUE, result |-> OK,
                                emitted |-> b.emitted]

\* a write that is left in the buffers of the operating system
fsyncNone(durable, bytes) == durable

\* ss_file.flush(); os.fsync(ss_file.fileno()): what is on stable storage
\* once a call that wrote has returned
fsync(durable, bytes) == bytes

\* a lock that is granted whoever holds the file
lockfShared(holder, p) == OK

\* fcntl.lockf(self._file, LOCK_EX | LOCK_NB) by process p
lockf(holder, p) == IF holder \in {0, p} THEN OK ELSE "IOError"

\* ------------------------------------ RdiffBackupCommand.execute_backup
\* the clock and the timestamps of the history entries run over 0..MaxClock
MaxClock == 2
\* the incrementals of an entry and MAX_INCREMENTAL_COUNT run over 0..MaxCount
MaxCount == 2

\* a history: the entries of dst that match fs_backup_re, each named by the
\* second it was made at, with the number of incrementals rdiff-backup
\* lists for it
Histories == UNION {[files -> 0..MaxCount] : files \in SUBSET (0..MaxClock)}

CadenceConfigs ==
    [MAX_INCREMENTAL_COUNT : 0..MaxCount, MAX_INCREMENTAL_SPAN : 0..MaxClock]

\* sorted(...)[-1]: the names have a fixed width, their order is that of
\* the seconds they name
SortedLast(files) == CHOOSE x \in files : \A y \in files : y <= x

\* a test that lets the count reach MAX_INCREMENTAL_COUNT + 1
full_backupInclusive(history, config, now) ==
    LET files == DOMAIN history
    IN  IF files = {} THEN TRUE
        ELSE LET entry == SortedLast(files)
             IN  IF history[entry] <= config.MAX_INCREMENTAL_COUNT
                    /\ now - entry < config.MAX_INCREMENTAL_SPAN
                 THEN FALSE
                 ELSE TRUE

\* the value of full_backup once the test of execute_backup is done
full_backup(history, config, now) ==
    LET files == DOMAIN history
    IN  IF files = {} THEN TRUE
        ELSE LET last == SortedLast(files)
                 incrementals == history[last]
             IN  IF incrementals < config.MAX_INCREMENTAL_COUNT
                    /\ now - last < config.MAX_INCREMENTAL_SPAN
                 THEN FALSE
                 ELSE TRUE

NoCadence ==
    [history |-> <<>>, now |-> 0, decision |-> "none",
     config |-> [MAX_INCREMENTAL_COUNT |-> 0, MAX_INCREMENTAL_SPAN |-> 0]]

\* ---------------------------------------------------- the backup commands
\* the invocations of the program in one behaviour
MaxRuns == 2

\* now.isoformat() for each second of the clock
Stamps == <<"t0", "t1", "t2", "t3", "t4", "t5">>

Stamp(t) == Stamps[t + 1]

\* self.args.dst, a relative path of one component
Dst == "dst"

\* os.path.join(self.args.dst, new_dir_name) + "/"
DirPath(t) == <<Dst, "/", Stamp(t), "/">>

\* os.path.join(self.args.dst, new_backup_name)
TbzPath(t) == <<Dst, "/", Stamp(t), ".tbz">>

\* os.path.join(self.args.dst, log_relative_path)
LogPath == <<Dst, "/", "log.txt">>

\* what the source holds when a backup is made
Payloads == {"a", "b"}

\* TYPE of the working directory (rdiff, tar), or the db command
Flows == {"rdiff", "tar", "db"}

Commands == {"backup", "sync", "sync --full", "sync --list"}

\* the general configuration
Settings == {"complete", "no ROOT_PATH", "no S3_URI_PREFIX", "no S3CMD_CONFIG"}

\* MAX_INCREMENTAL_COUNT and MAX_INCREMENTAL_SPAN of the working directory:
\* one pair that makes every backup a full one, one that allows incrementals
BackupConfigs ==
    {[MAX_INCREMENTAL_COUNT |-> 0, MAX_INCREMENTAL_SPAN |-> 0],
     [MAX_INCREMENTAL_COUNT |-> MaxCount, MAX_INCREMENTAL_SPAN |-> MaxClock]}

\* the filesystem before the first invocation: an empty destination, no
\* staging directory, no ledger file
NoFs ==
    [flow |-> "rdiff", entries |-> <<>>, log |-> <<>>, backup_dir |-> FALSE,
     temps |-> 0, sync_state |-> FALSE, made |-> <<>>]

\* no invocation is running
NoInv ==
    [phase |-> "none", n |-> 0, cmd |-> "none", payload |-> "a",
     full_backup |-> TRUE, last |-> <<>>, raised |-> "none",
     outcome |-> "none", artifact |-> <<>>, before |-> <<>>,
     suppress_sync |-> FALSE, sync_called |-> FALSE, snapshot |-> EmptyState,
     attempted |-> {}, stdout |-> {}, stderr |-> {}, status |-> 0,
     now |-> 0, half |-> 0, turns |-> 0, mtime |-> 0, mirror |-> 0,
     steps |-> <<>>]

\* ---------------------------------------------- the working directories
\* args.src: three absolute paths and a relative one
Srcs == {<<"/", "a">>, <<"/", "b">>, <<"/", "c">>, <<"r">>}

\* get_hash: a hash of a few characters, so two paths may share theirs
get_hash(src) ==
    IF src \in {<<"/", "a">>, <<"/", "b">>} THEN "h1"
    ELSE IF src = <<"/", "c">> THEN "h2"
    ELSE "h3"

\* the names os.listdir(config_dir) may give: working directories made
\* for some name and hash, and a name that ends in a hash with no dot
DirNames ==
    {<<"x", ".", "h1">>, <<"y", ".", "h1">>, <<"x", ".", "h2">>, <<"x", "h1">>}

\* args.name
InitNames == {"x", "z"}

\* args.backup_type, which the parser takes from ("rdiff", "tar")
BackupTypes == {"rdiff", "tar"}

\* the steps of FSBackupInit.execute that the operating system may fail
InitSteps == {"symlink", "open", "write"}

\* an entry of config_dir that has no src link in it
NoLink == <<>>

\* a test on the last component alone, the dot left out
EndsWithHash(name, suffix) ==
    name # <<>> /\ name[Len(name)] = suffix[Len(suffix)]

\* d.endswith(suffix)
EndsWith(name, suffix) ==
    /\ Len(name) >= Len(suffix)
    /\ SubSeq(name, Len(name) - Len(suffix) + 1, Len(name)) = suffix

\* what a property or a command ends with: a value returned, fatal (a
\* message on stderr and Exit(1)), or an exception of the step named
Gives(kind, value, message, named, step) ==
    [kind |-> kind, value |-> value, message |-> message, named |-> named,
     step |-> step]

\* a resolution that never finds a directory
working_dirNone(entries, listable, src) == Gives("None", <<>>, "none", {}, "none")

\* SourceCommand.working_dir: entries maps the names of config_dir to the
\* target of their src link (NoLink: no such link); listable is false
\* when os.listdir raises OSError
working_dir(entries, listable, src) ==
    LET working_dirs == IF listable THEN DOMAIN entries ELSE {}
        suffix == <<".", get_hash(src)>>
        candidates == {d \in working_dirs : EndsWith(d, suffix)}
    IN  IF Cardinality(candidates) > 1
        THEN Gives("fatal", <<>>, "duplicate working directories", candidates, "none")
        ELSE IF candidates = {}
        THEN Gives("None", <<>>, "none", {}, "none")
        ELSE LET candidate == CHOOSE d \in candidates : TRUE
                 link == entries[candidate].link
             IN  IF link = NoLink
                 THEN Gives("raised", <<>>, "OSError", {}, "readlink")
                 ELSE IF link # src
                 THEN Gives("fatal", <<>>,
                            "found a working directory with the wrong path",
                            {candidate}, "none")
                 ELSE Gives("returned", candidate, "none", {}, "none")

\* os.makedirs(working_dir), os.symlink(src, src_file), the config file
WithDir(entries, d, link, config) ==
    [x \in DOMAIN entries \cup {d} |->
        IF x = d THEN [link |-> link, config |-> config] ELSE entries[x]]

\* what a command leaves in config_dir, and what it ends with
Left(entries, listable, ends) ==
    [entries |-> entries, listable |-> listable, ends |-> ends]

\* FSBackupInit.execute; failing is the step the operating system fails,
\* if any. The except clause of os.symlink removes the directory and goes
\* on to open(config_path, "w")
fs_init(entries, listable, src, name, backup_type, failing) ==
    LET existing == working_dir(entries, listable, src)
        d == <<name, ".", get_hash(src)>>
    IN  IF ~IsAbsolute(src)
        THEN Left(entries, listable,
                  Gives("fatal", <<>>, "the source path must be absolute", {}, "none"))
        ELSE IF existing.kind \in {"fatal", "raised"}
        THEN Left(entries, listable, existing)
        ELSE IF existing.kind = "returned"
        THEN Left(entries, listable,
                  Gives("fatal", <<>>, "there is already a directory for this path",
                        {}, "none"))
        ELSE IF failing = "symlink"
        THEN Left(entries, TRUE, Gives("raised", <<>>, "IOError", {}, "open"))
        ELSE IF failing = "open"
        THEN Left(WithDir(entries, d, src, "none"), TRUE,
                  Gives("raised", <<>>, "IOError", {}, "open"))
        ELSE IF failing = "write"
        THEN Left(WithDir(entries, d, src, "empty"), TRUE,
                  Gives("raised", <<>>, "IOError", {}, "write"))
        ELSE IF backup_type \notin {"rdiff", "tar"}
        THEN Left(WithDir(entries, d, src, "empty"), TRUE,
                  Gives("fatal", <<>>, "unknown backup type", {}, "none"))
        ELSE Left(WithDir(entries, d, src, backup_type), TRUE,
                  Gives("returned", <<"0">>, "created", {d}, "none"))

\* no command has run on the configuration directory
NoWd ==
    [entries |-> <<>>, listable |-> TRUE, src |-> <<"/", "a">>, cmd |-> "none",
     name |-> "x", failing |-> "none", before |-> <<>>,
     ends |-> Gives("none", <<>>, "none", {}, "none"), inits |-> <<>>]

\* -------------------------------------------------------------- the state
VARIABLES
    file,       \* the ledger file as the operating system shows it
    disk,       \* the part of it that is on stable storage
    lock,       \* the process holding the lock on the file, 0 for none
    opened,     \* opened[p]: process p holds a SyncState
    cache,      \* cache[p]: its _cached_raw_current_state
    observed,   \* observed[p]: an S3 has registered check_sync on its emitter
    tree,       \* the kind of each path under ROOT_PATH
    pc,         \* pc[p]: where process p is in S3.run
    run,        \* run[p]: the locals of S3.run and what the backend did
    last,       \* the last call made and how it ended
    cad,        \* the inputs and the outcome of the full/incremental decision
    fs,         \* the destination, the staging area and the existence of
                \* the ledger file
    inv,        \* the invocation of the program that is running
    clock,      \* utcnow(), in seconds
    wd          \* the configuration directory and the command that resolves or
                \* initializes a working directory in it

vars == <<file, disk, lock, opened, cache, observed, tree, pc, run, last, cad,
          fs, inv, clock, wd>>

Last(p, call, path, result, emitted) ==
    [proc |-> p, call |-> call, path |-> path, result |-> result,
     emitted |-> emitted, config |-> "none", named |-> "none"]

\* "Error while processing: " + path, printed by the except clauses of run
Logged(loop, path) == [loop |-> loop, path |-> path]

\* start is the file as S3.run found it; pushed and synced are the paths the
\* backend has copied, logged the errors printed
NoRun == [push |-> <<>>, sync |-> <<>>, i |-> 0, start |-> <<>>,
          pushed |-> {}, synced |-> {}, logged |-> <<>>]

\* the tree of the tests: ROOT_PATH itself and a directory under it
InitTree == [x \in Paths \ {PathAbs} |->
                IF x \in {Root, PathDir} THEN "dir" ELSE "none"]

\* the records written to the file, one sign each
Records(bytes) == Cardinality({i \in 1..Len(bytes) : bytes[i] \in Signs})

Init ==
    /\ file = <<>>
    /\ disk = <<>>
    /\ lock = 0
    /\ opened = [p \in Procs |-> FALSE]
    /\ cache = [p \in Procs |-> NoCache]
    /\ observed = [p \in Procs |-> FALSE]
    /\ tree = InitTree
    /\ pc = [p \in Procs |-> "idle"]
    /\ run = [p \in Procs |-> NoRun]
    /\ last = Last(0, "none", Root, OK, FALSE)
    /\ cad = NoCadence
    /\ fs = NoFs
    /\ inv = NoInv
    /\ clock = 0
    /\ wd = NoWd

\* ---------------------------------------------------------- SyncState API
\* SyncState.__init__: open(path, 'ab+') and the non-blocking lock
SyncStateInit(p) ==
    /\ ~opened[p]
    /\ LET r == lockf(lock, p)
       IN  /\ opened' = [opened EXCEPT ![p] = (r = OK)]
           /\ lock' = IF r = OK THEN p ELSE lock
           /\ last' = Last(p, "open", Root, r, FALSE)
    /\ cache' = [cache EXCEPT ![p] = NoCache]
    /\ UNCHANGED <<file, disk, observed, tree, pc, run, cad, fs, inv, clock, wd>>

\* one of push_path, sync_path, push_done, sync_done
Called(p, call, op, path) ==
    /\ opened[p]
    /\ pc[p] = "idle"
    /\ LET r == update_state(cache[p], file, observed[p], tree, op, path)
       IN  /\ cache' = [cache EXCEPT ![p] = r.cache]
           /\ file' = r.bytes
           /\ disk' = IF r.wrote THEN fsync(disk, r.bytes) ELSE disk
           /\ last' = Last(p, call, path, r.result, r.emitted)
    /\ run' = [run EXCEPT ![p] = NoRun]
    /\ UNCHANGED <<lock, opened, observed, tree, pc, cad, fs, inv, clock, wd>>

\* a call by a caller that has not stopped calling
Mutate(p, call, op, path) ==
    /\ Records(file) < MaxRecords
    /\ Called(p, call, op, path)

push_path(p, path) == Mutate(p, "push_path", <<"+", "push">>, path)

sync_path(p, path) == Mutate(p, "sync_path", <<"+", "sync">>, path)

push_done(p, path) == Mutate(p, "push_done", <<"-", "push">>, path)

sync_done(p, path) == Mutate(p, "sync_done", <<"-", "sync">>, path)

\* the current_state property, read by a caller
current_state(p) ==
    /\ opened[p]
    /\ pc[p] = "idle"
    /\ LET ld == raw_current_state(cache[p], file, observed[p], tree)
       IN  /\ cache' = [cache EXCEPT ![p] = Cached(ld.state)]
           /\ last' = Last(p, "current_state", Root, ld.result, FALSE)
    /\ run' = [run EXCEPT ![p] = NoRun]
    /\ UNCHANGED <<file, disk, lock, opened, observed, tree, pc, cad, fs, inv, clock, wd>>

\* SyncState.reset: seek(0) and truncate(), no fsync
reset(p) ==
    /\ opened[p]
    /\ pc[p] = "idle"
    /\ LET ld == raw_current_state(cache[p], file, observed[p], tree)
           pending == ld.state.sync # <<>> \/ ld.state.push # <<>>
           result == IF ld.result # OK THEN ld.result
                     ELSE IF pending THEN "FatalUserError" ELSE OK
       IN  /\ cache' = [cache EXCEPT ![p] = Cached(ld.state)]
           /\ file' = IF result = OK THEN <<>> ELSE file
           /\ last' = Last(p, "reset", Root, result, FALSE)
    /\ run' = [run EXCEPT ![p] = NoRun]
    /\ UNCHANGED <<disk, lock, opened, observed, tree, pc, cad, fs, inv, clock, wd>>

\* ------------------------------------------------------------------- S3
Configs == {"complete", "no S3_URI_PREFIX", "no ROOT_PATH", "neither"}

\* a constructor that looks for ROOT_PATH first
S3_initRootFirst(config) ==
    IF config \in {"no ROOT_PATH", "neither"}
    THEN [result |-> "ImproperlyConfigured", named |-> "ROOT_PATH"]
    ELSE IF config = "no S3_URI_PREFIX"
    THEN [result |-> "ImproperlyConfigured", named |-> "S3_URI_PREFIX"]
    ELSE [result |-> OK, named |-> "none"]

\* the two checks of S3.__init__, in their order: what it raises and the
\* setting its message names
S3_init(config) ==
    IF config \in {"no S3_URI_PREFIX", "neither"}
    THEN [result |-> "ImproperlyConfigured", named |-> "S3_URI_PREFIX"]
    ELSE IF config = "no ROOT_PATH"
    THEN [result |-> "ImproperlyConfigured", named |-> "ROOT_PATH"]
    ELSE [result |-> OK, named |-> "none"]

\* S3.__init__: the two settings, then the observer on 'sync'
S3Init(p, config) ==
    /\ opened[p]
    /\ ~observed[p]
    /\ pc[p] = "idle"
    /\ observed' = [observed EXCEPT ![p] = (S3_init(config).result = OK)]
    /\ last' = [Last(p, "S3", Root, S3_init(config).result, FALSE)
                  EXCEPT !.config = config, !.named = S3_init(config).named]
    /\ UNCHANGED <<file, disk, lock, opened, cache, tree, pc, run, cad, fs, inv, clock, wd>>

\* where S3.run goes after the path at index i of a loop
AfterPath(r, loop, i) ==
    IF loop = "push" /\ i < Len(r.push) THEN [pc |-> "do_push", i |-> i + 1]
    ELSE IF loop = "push" /\ r.sync # <<>> THEN [pc |-> "do_sync", i |-> 1]
    ELSE IF loop = "sync" /\ i < Len(r.sync) THEN [pc |-> "do_sync", i |-> i + 1]
    ELSE [pc |-> "idle", i |-> 0]

\* _push / _sync that go on to push_done / sync_done whatever _do_push /
\* _do_sync did
AfterDoAlways(raised, done, next) == done

\* S3._push / S3._sync: an exception of _do_push / _do_sync leaves the
\* method before push_done / sync_done
AfterDo(raised, done, next) == IF raised THEN next ELSE done

Step(p, r, to) ==
    /\ run' = [run EXCEPT ![p] = [r EXCEPT !.i = to.i]]
    /\ pc' = [pc EXCEPT ![p] = to.pc]
    /\ last' = IF to.pc = "idle" THEN Last(p, "run", Root, OK, FALSE) ELSE last

\* S3.run up to its first loop: the snapshot of current_state
S3_run(p) ==
    /\ opened[p]
    /\ observed[p]
    /\ pc[p] = "idle"
    /\ LET ld == raw_current_state(cache[p], file, observed[p], tree)
           r == [NoRun EXCEPT !.push = list_keys(ld.state.push),
                              !.sync = list_keys(ld.state.sync),
                              !.start = file]
       IN  /\ cache' = [cache EXCEPT ![p] = Cached(ld.state)]
           /\ IF ld.result # OK
              THEN /\ last' = Last(p, "run", Root, ld.result, FALSE)
                   /\ run' = [run EXCEPT ![p] = NoRun]
                   /\ UNCHANGED pc
              ELSE /\ Records(file) <= MaxRecords
                   /\ Step(p, r, IF r.push # <<>> THEN [pc |-> "do_push", i |-> 1]
                                 ELSE AfterPath(r, "push", 0))
    /\ UNCHANGED <<file, disk, lock, opened, observed, tree, cad, fs, inv, clock, wd>>

\* self._do_push(to_push), which the backend makes raise or not, and the
\* except clause of run when it raises
S3_do_push(p, raised) ==
    /\ pc[p] = "do_push"
    /\ LET r == run[p]
           path == r.push[r.i]
           to == AfterDo(raised, [pc |-> "push_done", i |-> r.i],
                         AfterPath(r, "push", r.i))
       IN  Step(p, IF raised THEN [r EXCEPT !.logged = Append(@, Logged("push", path))]
                   ELSE [r EXCEPT !.pushed = @ \cup {path}], to)
    /\ UNCHANGED <<file, disk, lock, opened, cache, observed, tree, cad, fs, inv, clock, wd>>

\* self._do_sync(to_sync), which the backend makes raise or not, and the
\* except clause of run when it raises
S3_do_sync(p, raised) ==
    /\ pc[p] = "do_sync"
    /\ LET r == run[p]
           path == r.sync[r.i]
           to == AfterDo(raised, [pc |-> "sync_done", i |-> r.i],
                         AfterPath(r, "sync", r.i))
       IN  Step(p, IF raised THEN [r EXCEPT !.logged = Append(@, Logged("sync", path))]
                   ELSE [r EXCEPT !.synced = @ \cup {path}], to)
    /\ UNCHANGED <<file, disk, lock, opened, cache, observed, tree, cad, fs, inv, clock, wd>>

\* self.state.push_done(path) / sync_done(path) inside run: an exception
\* is caught by the same except clause
Done(p, loop, path) ==
    LET u == update_state(cache[p], file, observed[p], tree, <<"-", loop>>, path)
        r == run[p]
    IN  /\ cache' = [cache EXCEPT ![p] = u.cache]
        /\ file' = u.bytes
        /\ disk' = IF u.wrote THEN fsync(disk, u.bytes) ELSE disk
        /\ Step(p, IF u.result = OK THEN r
                   ELSE [r EXCEPT !.logged = Append(@, Logged(loop, path))],
                AfterPath(r, loop, r.i))
        /\ UNCHANGED <<lock, opened, observed, tree, cad, fs, inv, clock, wd>>

S3_push_done(p) ==
    /\ pc[p] = "push_done"
    /\ Done(p, "push", run[p].push[run[p].i])

S3_sync_done(p) ==
    /\ pc[p] = "sync_done"
    /\ Done(p, "sync", run[p].sync[run[p].i])

\* ------------------------------------------------------- the environment
\* process p ends (or is killed): its lock and its memory go
Exit(p) ==
    /\ opened[p]
    /\ opened' = [opened EXCEPT ![p] = FALSE]
    /\ lock' = IF lock = p THEN 0 ELSE lock
    /\ cache' = [cache EXCEPT ![p] = NoCache]
    /\ observed' = [observed EXCEPT ![p] = FALSE]
    /\ pc' = [pc EXCEPT ![p] = "idle"]
    /\ run' = [run EXCEPT ![p] = NoRun]
    /\ last' = Last(p, "exit", Root, OK, FALSE)
    /\ UNCHANGED <<file, disk, tree, cad, fs, inv, clock, wd>>

\* a power failure: every process goes, and what was not forced to stable
\* storage may or may not have reached it
PowerFailure ==
    /\ \E p \in Procs : opened[p]
    /\ \E survives \in {file, disk} :
          /\ file' = survives
          /\ disk' = survives
    /\ lock' = 0
    /\ opened' = [p \in Procs |-> FALSE]
    /\ cache' = [p \in Procs |-> NoCache]
    /\ observed' = [p \in Procs |-> FALSE]
    /\ pc' = [p \in Procs |-> "idle"]
    /\ run' = [p \in Procs |-> NoRun]
    /\ last' = Last(0, "power failure", Root, OK, FALSE)
    /\ UNCHANGED <<tree, cad, fs, inv, clock, wd>>

\* somebody removes, creates or replaces the directory under ROOT_PATH
ChangeTree(kind) ==
    /\ \A p \in Procs : pc[p] = "idle"
    /\ tree[PathDir] # kind
    /\ tree' = [tree EXCEPT ![PathDir] = kind]
    /\ UNCHANGED <<file, disk, lock, opened, cache, observed, pc, run, last, cad, fs, inv, clock, wd>>

Next ==
    \/ \E p \in Procs : SyncStateInit(p)
    \/ \E p \in Procs, config \in Configs : S3Init(p, config)
    \/ \E p \in Procs, path \in Paths : push_path(p, path)
    \/ \E p \in Procs, path \in Paths : sync_path(p, path)
    \/ \E p \in Procs, path \in Paths : push_done(p, path)
    \/ \E p \in Procs, path \in Paths : sync_done(p, path)
    \/ \E p \in Procs : current_state(p)
    \/ \E p \in Procs : reset(p)
    \/ \E p \in Procs : S3_run(p)
    \/ \E p \in Procs, raised \in BOOLEAN : S3_do_push(p, raised)
    \/ \E p \in Procs : S3_push_done(p)
    \/ \E p \in Procs, raised \in BOOLEAN : S3_do_sync(p, raised)
    \/ \E p \in Procs : S3_sync_done(p)
    \/ \E p \in Procs : Exit(p)
    \/ PowerFailure
    \/ \E kind \in FsKinds : ChangeTree(kind)

Spec == Init /\ [][Next]_vars

\* ----------------------------------------- the full/incremental decision
\* a history made by earlier backups, a configuration and the present time
InitCadence ==
    /\ file = <<>>
    /\ disk = <<>>
    /\ lock = 0
    /\ opened = [p \in Procs |-> FALSE]
    /\ cache = [p \in Procs |-> NoCache]
    /\ observed = [p \in Procs |-> FALSE]
    /\ tree = InitTree
    /\ pc = [p \in Procs |-> "idle"]
    /\ run = [p \in Procs |-> NoRun]
    /\ last = Last(0, "none", Root, OK, FALSE)
    /\ \E history \in Histories, config \in CadenceConfigs, now \in 0..MaxClock :
          /\ \A t \in DOMAIN history : t <= now
          /\ cad = [history |-> history, now |-> now, decision |-> "none",
                    config |-> config]
    /\ fs = NoFs
    /\ inv = NoInv
    /\ clock = 0
    /\ wd = NoWd

\* execute_backup up to the point where full_backup is known
execute_backup ==
    /\ cad.decision = "none"
    /\ cad' = [cad EXCEPT !.decision =
                   IF full_backup(cad.history, cad.config, cad.now)
                   THEN "Full" ELSE "Incremental"]
    /\ UNCHANGED <<file, disk, lock, opened, cache, observed, tree, pc, run, last,
                   fs, inv, clock, wd>>

NextCadence == execute_backup

SpecCadence == InitCadence /\ [][NextCadence]_vars

\* ------------------------------------------------- the backup commands
\* the kind of a path under ROOT_PATH: the directories of the destination,
\* and the tree around it
BackupTree ==
    LET dirs == {DirPath(t) : t \in {x \in DOMAIN fs.entries : fs.entries[x].kind = "dir"}}
    IN  [x \in DOMAIN tree \cup dirs |-> IF x \in dirs THEN "dir" ELSE tree[x]]

\* one loop of S3.run, run to its end: fails are the paths on which the
\* backend raises
\* the end of one turn of the loop: u is what push_done or sync_done left,
\* and an exception of it is logged like one of the backend
Turned(acc, entry, u) ==
    [acc EXCEPT !.attempted = @ \cup {entry},
                !.cache = u.cache, !.bytes = u.bytes,
                !.logged = IF u.result = OK THEN @ ELSE @ \cup {entry}]

RECURSIVE RunLoop(_, _, _, _, _)
RunLoop(loop, paths, acc, under, fails) ==
    IF paths = <<>> THEN acc
    ELSE LET entry == Logged(loop, Head(paths))
         IN  IF entry \in fails
             THEN RunLoop(loop, Tail(paths),
                          [acc EXCEPT !.attempted = @ \cup {entry},
                                      !.logged = @ \cup {entry}], under, fails)
             ELSE RunLoop(loop, Tail(paths),
                          Turned(acc, entry,
                                 update_state(acc.cache, acc.bytes, TRUE, under,
                                              <<"-", loop>>, Head(paths))),
                          under, fails)

\* the paths of a state, each with the loop of S3.run that takes it
Pending(state) ==
    {Logged("push", x) : x \in Range(state.push)}
    \cup {Logged("sync", x) : x \in Range(state.sync)}

\* S3.run once current_state has returned ld, or raised: the two loops
\* over the snapshot it took, if it took one
RunFrom(ld, bytes, under, fails) ==
    LET start == [cache |-> Cached(ld.state), bytes |-> bytes, result |-> ld.result,
                  snapshot |-> IF ld.result = OK THEN ld.state ELSE EmptyState,
                  attempted |-> {}, logged |-> {}]
    IN  IF ld.result # OK THEN start
        ELSE RunLoop("sync", ld.state.sync,
                     RunLoop("push", ld.state.push, start, under, fails),
                     under, fails)

\* S3.run from its call to its return
S3_run_to_end(cached, bytes, under, fails) ==
    RunFrom(raw_current_state(cached, bytes, TRUE, under), bytes, under, fails)

\* S3._stderr outside the tests: _cached_stderr is None
S3_stderr == "None"

\* print(..., file=file)
print_file(stream) == IF stream = "None" THEN "sys.stdout" ELSE stream

\* the exit status main gives for the way the command ended
ExitStatus(raised) == IF raised = "none" THEN 0 ELSE 1

\* a destination to which nothing was backed up yet; the ledger file may be
\* missing, or hold a +sync record for a directory that has been removed
\* since, alone or after the +push record of a log that is still to push
InitBackup ==
    /\ lock = 0
    /\ opened = [p \in Procs |-> FALSE]
    /\ cache = [p \in Procs |-> NoCache]
    /\ observed = [p \in Procs |-> FALSE]
    /\ pc = [p \in Procs |-> "idle"]
    /\ run = [p \in Procs |-> NoRun]
    /\ last = Last(0, "none", Root, OK, FALSE)
    /\ inv = NoInv
    /\ clock = 0
    /\ wd = NoWd
    /\ \E config \in BackupConfigs : cad = [NoCadence EXCEPT !.config = config]
    /\ \E flow \in Flows, ledger \in {"absent", "stale", "unpushed, stale"} :
          /\ file = IF ledger = "absent" THEN <<>>
                    ELSE IF ledger = "stale" THEN FormatLine(<<"+", "sync">>, PathDir)
                    ELSE FormatLine(<<"+", "push">>, LogPath)
                         \o FormatLine(<<"+", "sync">>, PathDir)
          /\ disk = file
          /\ tree = [InitTree EXCEPT ![PathDir] =
                         IF ledger = "absent" THEN "dir" ELSE "none"]
          /\ fs = [NoFs EXCEPT !.flow = flow, !.sync_state = (ledger # "absent")]

\* what main leaves on sys.stderr for what the command raised: fatal has
\* written "<prog>: <message>" before it raised Exit, the except clause of
\* main calls fatal for a FatalUserError, and any other exception leaves
\* main and ends the interpreter with its traceback
main_stderr(raised) ==
    IF raised = "none" THEN "none"
    ELSE IF raised \in {"Exit", "FatalUserError", "ImproperlyConfigured"}
    THEN "prog: message"
    ELSE "Traceback"

\* the invocation ends: the process exits and its lock goes
Ended(record) == [record EXCEPT !.phase = "ended", !.status = ExitStatus(record.raised)]

\* main up to cmd = args.class_(args): Command.__init__, then for the
\* commands that store offsite BaseBackupCommand.__init__; held says that
\* another process holds the lock on the ledger file
Invoke(cmd, settings, held) ==
    /\ inv.phase \in {"none", "ended"}
    /\ inv.n < MaxRuns
    /\ held => fs.sync_state
    /\ LET new == [NoInv EXCEPT !.n = inv.n + 1, !.cmd = cmd, !.before = file]
           locked == lockf(IF held THEN 2 ELSE 0, 1)
           raised == IF settings = "no ROOT_PATH" THEN "Exit"
                     ELSE IF locked # OK THEN locked
                     ELSE IF settings # "complete" THEN "ImproperlyConfigured"
                     ELSE "none"
       IN  /\ fs' = IF settings = "no ROOT_PATH" THEN fs
                    ELSE [fs EXCEPT !.sync_state = TRUE]
           /\ inv' = IF raised = "none" THEN [new EXCEPT !.phase = "constructed"]
                     ELSE Ended([new EXCEPT !.raised = raised])
           /\ opened' = [opened EXCEPT ![1] = (raised = "none")]
           /\ observed' = [observed EXCEPT ![1] = (raised = "none")]
           /\ lock' = IF raised = "none" THEN 1 ELSE 0
           /\ last' = Last(1, "main", Root, raised, FALSE)
    /\ cache' = [cache EXCEPT ![1] = NoCache]
    /\ UNCHANGED <<file, disk, tree, pc, run, cad, clock, wd>>

\* the entries of dst that match fs_backup_re, with one more
WithEntry(entries, t, entry) ==
    [x \in DOMAIN entries \cup {t} |-> IF x = t THEN entry ELSE entries[x]]

\* os.unlink of an entry of dst
WithoutEntry(entries, t) == [x \in DOMAIN entries \ {t} |-> entries[x]]

\* get_incrementals_for(last_path, True)[-1]
last_incremental(entries, t) == entries[t].sessions[Len(entries[t].sessions)]

\* the history as execute_backup reads it: the incrementals of each entry
HistoryOf(entries) == [t \in DOMAIN entries |-> Len(entries[t].sessions) - 1]

\* what an invocation returns from the steps of execute
Returns(f, u, outcome, artifact) ==
    [fs |-> f, cache |-> u.cache, bytes |-> u.bytes, wrote |-> u.wrote,
     raised |-> IF u.result = OK THEN "none" ELSE u.result,
     outcome |-> outcome, artifact |-> artifact]

\* what it raises from them
Raises(f, cached, bytes, raised, outcome) ==
    [fs |-> f, cache |-> cached, bytes |-> bytes, wrote |-> FALSE,
     raised |-> raised, outcome |-> outcome, artifact |-> <<>>]

\* a log that is written but not pushed
logUnpushed(f, cached, bytes, under, notice) ==
    Returns([f EXCEPT !.log = Append(@, notice)],
            [cache |-> cached, bytes |-> bytes, wrote |-> FALSE, result |-> OK],
            "skipped", <<>>)

\* BaseBackupCommand.log: the notice appended to log.txt, then push_path
log(f, cached, bytes, under, notice) ==
    Returns([f EXCEPT !.log = Append(@, notice)],
            update_state(cached, bytes, TRUE, under, <<"+", "push">>, LogPath),
            "skipped", <<>>)

\* while loops that end at their first turn
waitedNever(flow, full, entries, latest, now) == TRUE

\* loops that look at the name of the last full backup alone
waitedFull(flow, full, entries, latest, now) ==
    IF latest = <<>> THEN TRUE ELSE now # latest[1]

\* the while loops of execute_backup: whether utcnow() lets them end
waited(flow, full, entries, latest, now) ==
    IF latest = <<>> THEN TRUE
    ELSE IF flow = "tar" THEN now # latest[1]
    ELSE IF full
    THEN now # latest[1] /\ now # last_incremental(entries, latest[1])
    ELSE now - last_incremental(entries, latest[1]) >= 1

\* RdiffBackupCommand.execute_backup from the end of its while loop;
\* tool_ok says whether rdiff-backup succeeds
rdiff_execute_backup(f, r, cached, bytes, under, now, tool_ok) ==
    IF r.last # <<>> /\ f.entries[r.last[1]].data = r.payload
    THEN log(f, cached, bytes, under,
             IF r.full_backup THEN "skipping creation of new full backup"
             ELSE "skipping creation of new incremental backup")
    ELSE IF ~r.full_backup
    THEN IF ~tool_ok
         THEN Raises(f, cached, bytes, "CalledProcessError", "failed")
         ELSE Returns([f EXCEPT !.entries[r.last[1]].sessions = Append(@, now),
                                !.entries[r.last[1]].data = r.payload,
                                !.made = Append(@, now)],
                      update_state(cached, bytes, TRUE, under, <<"+", "sync">>,
                                   DirPath(r.last[1])),
                      "incremental", DirPath(r.last[1]))
    ELSE IF now \in DOMAIN f.entries
    THEN Raises(f, cached, bytes, "OSError", "failed")
    ELSE IF ~tool_ok
    THEN Raises([f EXCEPT !.entries = WithEntry(@, now,
                     [kind |-> "dir", sessions |-> <<>>, data |-> "partial"])],
                cached, bytes, "CalledProcessError", "failed")
    ELSE Returns([f EXCEPT !.entries = WithEntry(@, now,
                      [kind |-> "dir", sessions |-> <<now>>, data |-> r.payload]),
                           !.made = Append(@, now)],
                 update_state(cached, bytes, TRUE, under, <<"+", "push">>,
                              DirPath(now)),
                 "full", DirPath(now))

\* os.unlink(new_backup_path), which runs once self.log has returned
Unlinked(logged, now) ==
    IF logged.raised # "none" THEN logged
    ELSE [logged EXCEPT !.fs.entries = WithoutEntry(@, now)]

\* TarBackupCommand.execute_backup from the end of its while loop; tool_ok
\* says whether tar succeeds
tar_execute_backup(f, r, cached, bytes, under, now, tool_ok) ==
    IF ~tool_ok
    THEN Raises([f EXCEPT !.entries = WithEntry(@, now,
                     [kind |-> "tbz", sessions |-> <<>>, data |-> "partial"])],
                cached, bytes, "CalledProcessError", "failed")
    ELSE LET built == [f EXCEPT !.entries = WithEntry(@, now,
                          [kind |-> "tbz", sessions |-> <<>>, data |-> r.payload])]
         IN  IF r.last # <<>> /\ built.entries[r.last[1]].data = r.payload
             THEN Unlinked(log(built, cached, bytes, under, "dropping backup"), now)
             ELSE Returns([built EXCEPT !.made = Append(@, now)],
                          update_state(cached, bytes, TRUE, under, <<"+", "push">>,
                                       TbzPath(now)),
                          "tar", TbzPath(now))

\* what an invocation keeps of the steps of execute
Executed(record, r) ==
    [record EXCEPT !.phase = "executed", !.raised = r.raised,
                   !.outcome = r.outcome, !.artifact = r.artifact]

\* execute has returned or raised r: what it leaves in the ledger, on the
\* filesystem and in the invocation; --list sets suppress_sync once
\* current_state has returned
Kept(r) ==
    /\ fs' = IF fs.flow = "db" /\ inv.cmd = "backup" /\ r.raised = "none"
             THEN [r.fs EXCEPT !.temps = @ - 1]
             ELSE r.fs
    /\ cache' = [cache EXCEPT ![1] = r.cache]
    /\ file' = r.bytes
    /\ disk' = IF r.wrote THEN fsync(disk, r.bytes) ELSE disk
    /\ inv' = [Executed(inv, r) EXCEPT !.suppress_sync =
                  (inv.cmd = "sync --list" /\ r.raised = "none")]
    /\ last' = Last(1, "execute", r.artifact, r.raised, FALSE)

\* self.ss.current_state, printed by sync --list
Listed(ld, bytes) ==
    [cache |-> Cached(ld.state), bytes |-> bytes, wrote |-> FALSE,
     result |-> ld.result]

\* execute of the sync command: Sync.execute
SyncExecute ==
    /\ inv.phase = "constructed"
    /\ inv.cmd # "backup"
    /\ Kept(Returns(fs, IF inv.cmd = "sync --full"
                         THEN update_state(cache[1], file, TRUE, BackupTree,
                                           <<"+", "sync">>, Root)
                         ELSE IF inv.cmd = "sync --list"
                         THEN Listed(raw_current_state(cache[1], file, TRUE,
                                                       BackupTree), file)
                         ELSE [cache |-> cache[1], bytes |-> file,
                               wrote |-> FALSE, result |-> OK],
                     "none", <<>>))
    /\ UNCHANGED <<lock, opened, observed, tree, pc, run, cad, clock, wd>>

\* execute of a backup command up to the while loop of execute_backup:
\* the staging area, the artifact built from the source, the history read
\* and the full/incremental decision; tool_ok says whether tar, pg_dump or
\* pg_dumpall succeeds
BackupStart(payload, tool_ok) ==
    /\ inv.phase = "constructed"
    /\ inv.cmd = "backup"
    /\ LET staged == IF fs.flow = "db" THEN [fs EXCEPT !.temps = @ + 1]
                     ELSE [fs EXCEPT !.backup_dir = TRUE]
           files == DOMAIN fs.entries
           latest == IF files = {} THEN <<>> ELSE <<SortedLast(files)>>
           raised == IF fs.flow = "rdiff" /\ ~tool_ok THEN "CalledProcessError"
                     ELSE IF fs.flow = "db" /\ ~tool_ok THEN "Exit"
                     ELSE IF /\ fs.flow # "tar"
                             /\ latest # <<>>
                             /\ fs.entries[latest[1]].sessions = <<>>
                     THEN "CalledProcessError"
                     ELSE "none"
           started == [inv EXCEPT !.payload = payload, !.last = latest,
                          !.full_backup =
                              IF fs.flow = "tar" THEN TRUE
                              ELSE full_backup(HistoryOf(fs.entries), cad.config, clock)]
       IN  /\ fs' = staged
           /\ inv' = IF raised = "none" THEN [started EXCEPT !.phase = "waiting"]
                     ELSE [inv EXCEPT !.phase = "executed", !.raised = raised,
                                      !.outcome = "failed"]
           /\ last' = Last(1, "execute", Root, raised, FALSE)
    /\ UNCHANGED <<file, disk, lock, opened, cache, observed, tree, pc, run, cad, clock, wd>>

\* execute_backup from the end of its while loop to the return of execute;
\* tool_ok says whether rdiff-backup, or tar in the tar flow, succeeds
BackupCommit(tool_ok) ==
    /\ inv.phase = "waiting"
    /\ waited(fs.flow, inv.full_backup, fs.entries, inv.last, clock)
    /\ Kept(IF fs.flow = "tar"
            THEN tar_execute_backup(fs, inv, cache[1], file, BackupTree,
                                    clock, tool_ok)
            ELSE rdiff_execute_backup(fs, inv, cache[1], file, BackupTree,
                                      clock, tool_ok))
    /\ UNCHANGED <<lock, opened, observed, tree, pc, run, cad, clock, wd>>

\* a sync step that is left out when execute raised
sync_runsOnReturn(suppress_sync, raised) == ~suppress_sync /\ raised = "none"

\* finally: cmd.sync(), whatever execute raised; Sync.sync leaves S3.run
\* out when execute has set suppress_sync
sync_runs(suppress_sync, raised) == ~suppress_sync

\* cmd.sync() has returned: r is what S3.run did, if it was called; an
\* exception of it replaces the one execute raised
Synced(called, r) ==
    LET raised == IF called /\ r.result # OK THEN r.result ELSE inv.raised
        printed == {e.path : e \in r.logged}
    IN  /\ file' = IF called THEN r.bytes ELSE file
        /\ disk' = IF called /\ r.bytes # file THEN fsync(disk, r.bytes) ELSE disk
        /\ inv' = Ended([inv EXCEPT
                      !.sync_called = called,
                      !.raised = raised,
                      !.snapshot = IF called THEN r.snapshot ELSE EmptyState,
                      !.attempted = IF called THEN r.attempted ELSE {},
                      !.stdout = IF called /\ print_file(S3_stderr) = "sys.stdout"
                                 THEN printed ELSE {},
                      !.stderr = IF called /\ print_file(S3_stderr) # "sys.stdout"
                                 THEN printed ELSE {}])
        /\ last' = Last(1, "sync", Root, raised, FALSE)

\* the finally clause of main, cmd.sync(), and the end of the process;
\* fails are the paths on which the backend raises
CmdSync(fails) ==
    /\ inv.phase = "executed"
    /\ ~sync_runs(inv.suppress_sync, inv.raised) => fails = {}
    /\ Synced(sync_runs(inv.suppress_sync, inv.raised),
              S3_run_to_end(cache[1], file, BackupTree, fails))
    /\ opened' = [opened EXCEPT ![1] = FALSE]
    /\ observed' = [observed EXCEPT ![1] = FALSE]
    /\ cache' = [cache EXCEPT ![1] = NoCache]
    /\ lock' = 0
    /\ UNCHANGED <<tree, pc, run, cad, fs, clock, wd>>

\* a second passes
Tick ==
    /\ clock < MaxClock
    /\ clock' = clock + 1
    /\ UNCHANGED <<file, disk, lock, opened, cache, observed, tree, pc, run, last,
                   cad, fs, inv, wd>>

NextBackup ==
    \/ \E cmd \in Commands, settings \in Settings, held \in BOOLEAN :
          Invoke(cmd, settings, held)
    \/ SyncExecute
    \/ \E payload \in Payloads, tool_ok \in BOOLEAN : BackupStart(payload, tool_ok)
    \/ \E tool_ok \in BOOLEAN : BackupCommit(tool_ok)
    \/ \E fails \in SUBSET Pending(raw_current_state(cache[1], file, TRUE,
                                                     BackupTree).state) :
          CmdSync(fails)
    \/ Tick

SpecBackup == InitBackup /\ [][NextBackup]_vars

\* ------------------------------------------- the working directories
\* the targets a src link may have
LinkTargets == {src \in Srcs : IsAbsolute(src)}

\* a configuration directory that does not exist yet, or one that holds
\* working directories, each with its src link and its config.py, and
\* entries of other kinds
InitWorkdir ==
    /\ file = <<>>
    /\ disk = <<>>
    /\ lock = 0
    /\ opened = [p \in Procs |-> FALSE]
    /\ cache = [p \in Procs |-> NoCache]
    /\ observed = [p \in Procs |-> FALSE]
    /\ tree = InitTree
    /\ pc = [p \in Procs |-> "idle"]
    /\ run = [p \in Procs |-> NoRun]
    /\ last = Last(0, "none", Root, OK, FALSE)
    /\ cad = NoCadence
    /\ fs = NoFs
    /\ inv = NoInv
    /\ clock = 0
    /\ \E listable \in BOOLEAN, names \in SUBSET DirNames :
          \E links \in [names -> LinkTargets \cup {NoLink}] :
              /\ ~listable => names = {}
              /\ wd = [NoWd EXCEPT
                        !.listable = listable,
                        !.entries = [d \in names |->
                            [link |-> links[d],
                             config |-> IF links[d] = NoLink THEN "none"
                                        ELSE "rdiff"]]]

\* a command that takes a src argument reads self.working_dir
GetWorkingDir(src) ==
    /\ wd.cmd = "none"
    /\ wd' = [wd EXCEPT !.cmd = "working_dir", !.src = src, !.before = wd.entries,
                        !.ends = working_dir(wd.entries, wd.listable, src)]
    /\ UNCHANGED <<file, disk, lock, opened, cache, observed, tree, pc, run, last,
                   cad, fs, inv, clock>>

\* fs-init has ended: r is what execute left and what it ended with
Initialized(src, name, failing, r) ==
    wd' = [wd EXCEPT !.cmd = "fs-init", !.src = src, !.name = name,
                     !.failing = failing, !.before = wd.entries,
                     !.entries = r.entries, !.listable = r.listable,
                     !.ends = r.ends]

\* the fs-init command, from main to its end
FsInit(src, name, backup_type, failing) ==
    /\ wd.cmd = "none"
    /\ Initialized(src, name, failing,
                   fs_init(wd.entries, wd.listable, src, name, backup_type, failing))
    /\ UNCHANGED <<file, disk, lock, opened, cache, observed, tree, pc, run, last,
                   cad, fs, inv, clock>>

NextWorkdir ==
    \/ \E src \in Srcs : GetWorkingDir(src)
    \/ \E src \in Srcs, name \in InitNames, backup_type \in BackupTypes,
          failing \in InitSteps \cup {"none"} :
          FsInit(src, name, backup_type, failing)

SpecWorkdir == InitWorkdir /\ [][NextWorkdir]_vars

\* ------------------------------------------------------------ properties
Appends == {"push_path", "sync_path", "push_done", "sync_done"}

PendingSets(state) == [push |-> Range(state.push), sync |-> Range(state.sync)]

\* what a freshly opened SyncState, with nothing attached to it, makes of a
\* ledger file
Replay(bytes) == raw_current_state(NoCache, bytes, FALSE, tree)

\* the lines appended to the ledger file since the run of process p started
Appended(p) == FileLines(SubSeq(file, Len(run[p].start) + 1, Len(file)))

\* the errors the run of process p has printed for the paths of one loop
Failed(p, loop) == {e.path : e \in {x \in Range(run[p].logged) : x.loop = loop}}

\* process p was the last to return from S3.run, normally
Returned(p) ==
    opened[p] /\ pc[p] = "idle" /\ last.proc = p /\ last.call = "run"
    /\ last.result = OK

\* C1: after any sequence of push_path / sync_path / push_done / sync_done
\* calls, failing ones included, the pending sets the SyncState holds in
\* memory are those a freshly opened SyncState reads back from the file.
ReplayEquivalence ==
    \A p \in Procs :
        (opened[p] /\ cache[p].loaded /\ last.proc = p /\ last.call \in Appends)
        => /\ Replay(file).result = OK
           /\ PendingSets(Replay(file).state) = PendingSets(cache[p].state)

\* C2: when S3.run returns, the pending sets are the paths of the snapshot
\* whose backend operation raised, in memory and in the ledger file; every
\* other path of the snapshot has been copied and has its done record.
RunIsolation ==
    \A p \in Procs :
        Returned(p)
        => LET r == run[p]
               memory == PendingSets(cache[p].state)
           IN  /\ memory.push = Range(r.push) \cap Failed(p, "push")
               /\ memory.sync = Range(r.sync) \cap Failed(p, "sync")
               /\ Replay(file).result = OK
               /\ PendingSets(Replay(file).state) = memory
               /\ r.pushed = Range(r.push) \ Failed(p, "push")
               /\ r.synced = Range(r.sync) \ Failed(p, "sync")
               /\ \A x \in r.pushed :
                      FormatLine(<<"-", "push">>, x) \in Range(Appended(p))
               /\ \A x \in r.synced :
                      FormatLine(<<"-", "sync">>, x) \in Range(Appended(p))

\* C3: every record appended to the ledger file during a run of S3 is the
\* done record of a path whose _do_push / _do_sync has returned without
\* raising in that run.
DoneOnlyOnSuccess ==
    \A p \in Procs :
        (opened[p] /\ (pc[p] # "idle" \/ Returned(p)))
        => \A line \in Range(Appended(p)) :
               LET parts == Split2(RStrip(line))
               IN  /\ Len(parts) = 3
                   /\ \/ parts[2] = <<"-", "push">> /\ parts[3] \in run[p].pushed
                      \/ parts[2] = <<"-", "sync">> /\ parts[3] \in run[p].synced

\* a run has returned after a failure on one path and a done record for
\* another
DoneOnlyOnSuccessWitness ==
    \E p \in Procs :
        /\ Returned(p)
        /\ run[p].logged # <<>>
        /\ Appended(p) # <<>>

\* C4: at most one process holds the ledger; a process that constructs a
\* SyncState while another holds it gets the lock error at once, and a
\* process that holds nothing is never made to wait.
LockExclusive ==
    /\ \A p, q \in Procs : (opened[p] /\ opened[q]) => p = q
    /\ \A p \in Procs : opened[p] => lock = p
    /\ \A p \in Procs : ~opened[p] => ENABLED SyncStateInit(p)
    /\ (last.call = "open" /\ last.result = OK)
       => opened[last.proc] /\ lock = last.proc
    /\ (last.call = "open" /\ last.result # OK)
       => /\ last.result = "IOError"
          /\ ~opened[last.proc]
          /\ lock \in Procs \ {last.proc}
          /\ opened[lock]

\* a process has just been refused the ledger another one holds
LockExclusiveWitness ==
    /\ last.call = "open"
    /\ last.result = "IOError"
    /\ \E p \in Procs : opened[p] /\ p # last.proc

\* C5 as stated: once push_path, sync_path, push_done, sync_done or reset
\* has returned, what it did to the ledger file is on stable storage.
MutationsDurable ==
    (last.call \in Appends \cup {"reset"} /\ last.result = OK) => disk = file

\* C5 amended: once push_path, sync_path, push_done or sync_done has
\* returned, in a run of S3 or out of it, its record is on stable storage,
\* and a power failure loses no record; the truncation made by reset is
\* the one mutation that may still be missing from stable storage, so a
\* power failure after reset may bring the truncated records back.
AppendsDurable ==
    /\ []((last.call \in Appends /\ last.result = OK) => disk = file)
    /\ [](disk # file => (file = <<>> /\ disk # <<>>))
    /\ [][PowerFailure => (file' = file \/ (file = <<>> /\ file' = disk))]_vars

\* the power has failed while the ledger held acknowledged records
AppendsDurableWitness ==
    /\ last.call = "power failure"
    /\ file # <<>>
    /\ disk = file

\* the pending sets current_state shows to a process whose cache is cached
HeldSets(cached, bytes, watched, under) ==
    PendingSets(raw_current_state(cached, bytes, watched, under).state)

\* C6: push_done(x) (sync_done(x)) on a path that is not pending for that
\* kind fails, appends nothing to the ledger file and leaves both pending
\* sets as they were, also when x is pending for the other kind.
DoneNotPending ==
    [][\A p \in Procs, x \in Paths, kind \in Kinds :
          (/\ \/ kind = "push" /\ push_done(p, x)
              \/ kind = "sync" /\ sync_done(p, x)
           /\ x \notin HeldSets(cache[p], file, observed[p], tree)[kind])
          => /\ last'.result # OK
             /\ file' = file
             /\ disk' = disk
             /\ HeldSets(cache'[p], file', observed'[p], tree')
                    = HeldSets(cache[p], file, observed[p], tree)
      ]_vars

\* push_done has failed on a path that is pending for sync only
DoneNotPendingWitness ==
    /\ last.call = "push_done"
    /\ last.result = "KeyError"
    /\ \E p \in Procs :
          /\ last.proc = p
          /\ opened[p]
          /\ last.path \in Range(cache[p].state.sync)
          /\ last.path \notin Range(cache[p].state.push)

\* C7: reset fails, leaving the ledger file and the pending sets as they
\* were, if and only if the ledger holds a pending path; otherwise it
\* truncates the file, and the empty file replays to empty pending sets.
ResetContract ==
    [][\A p \in Procs :
          reset(p)
          => LET pending == PendingSets(Replay(file).state)
             IN  /\ (last'.result # OK)
                    <=> (pending.push # {} \/ pending.sync # {})
                 /\ last'.result # OK
                    => /\ file' = file
                       /\ HeldSets(cache'[p], file', observed'[p], tree')
                              = HeldSets(cache[p], file, observed[p], tree)
                 /\ last'.result = OK
                    => /\ file' = <<>>
                       /\ Replay(file').state = EmptyState
      ]_vars

\* C8: with an S3 attached, sync_path on a path that is not a directory
\* under ROOT_PATH (absent, or of another kind) raises ValueError, appends
\* nothing to the ledger file and leaves the state of the SyncState alone.
SyncPathChecked ==
    [][\A p \in Procs, x \in Paths :
          (sync_path(p, x) /\ observed[p] /\ FsKind(tree, x) # "dir")
          => /\ last'.result = "ValueError"
             /\ file' = file
             /\ disk' = disk
             /\ cache' = cache
      ]_vars

\* sync_path has been refused by check_sync for a relative path
SyncPathCheckedWitness ==
    /\ last.call = "sync_path"
    /\ last.result = "ValueError"
    /\ last.emitted
    /\ last.proc \in Procs
    /\ observed[last.proc]
    /\ FsKind(tree, last.path) # "dir"

StartsWithSlash(path) == Len(path) > 0 /\ Head(path) = "/"

CadenceDecision ==
    cad.decision # "none"
    => LET files == DOMAIN cad.history
       IN  /\ cad.decision \in {"Full", "Incremental"}
           /\ files = {} => cad.decision = "Full"
           /\ \A entry \in files :
                  (\A other \in files : other <= entry)
                  => (cad.decision = "Incremental"
                      <=> (/\ cad.history[entry] < cad.config.MAX_INCREMENTAL_COUNT
                           /\ cad.now - entry < cad.config.MAX_INCREMENTAL_SPAN))
           /\ (cad.config.MAX_INCREMENTAL_SPAN = 0
               \/ cad.config.MAX_INCREMENTAL_COUNT = 0)
              => cad.decision = "Full"

\* an incremental backup has been decided on a history of several entries
\* whose last one is one incremental short of the maximum
CadenceDecisionWitness ==
    /\ cad.decision = "Incremental"
    /\ Cardinality(DOMAIN cad.history) > 1
    /\ \E entry \in DOMAIN cad.history :
          /\ \A other \in DOMAIN cad.history : other <= entry
          /\ cad.history[entry] + 1 = cad.config.MAX_INCREMENTAL_COUNT

SkipStep ==
    /\ inv.phase = "waiting"
    /\ inv'.phase = "executed"
    /\ inv.last # <<>>
    /\ fs.entries[inv.last[1]].data = inv.payload
    /\ inv'.outcome = "skipped"

\* C12: a backup invocation whose freshly built artifact compares equal to
\* that of the last history entry adds nothing to the history (no new
\* directory, no new incremental, no archive left at the destination), and
\* a skip notice is appended to the destination's log.
SkipAddsNothing ==
    [][SkipStep => /\ fs'.entries = fs.entries
                   /\ fs'.made = fs.made
                   /\ Len(fs'.log) = Len(fs.log) + 1]_vars

\* execute has ended on a skip: the artifact equalled that of the last entry
Skipped ==
    inv.phase = "executed" /\ inv.last # <<>> /\ inv.outcome = "skipped"

\* the notices execute_backup writes when it skips
SkipNotices ==
    {"skipping creation of new full backup",
     "skipping creation of new incremental backup", "dropping backup"}

\* C13 as stated: after the execute step of a skipped backup the ledger
\* file holds no record that was not there before it.
SkipRecordsNothing == Skipped => file = inv.before

\* C13: a skipped backup records no artifact with the ledger: after its
\* execute step the ledger file is what it was before, followed by at most
\* one record, the +push of <dst>/log.txt that log() makes for the log the
\* skip notice was appended to; it is there whenever execute returned
\* normally.
SkipRecordsLog ==
    Skipped
    => /\ fs.log # <<>>
       /\ fs.log[Len(fs.log)] \in SkipNotices
       /\ file \in {inv.before, inv.before \o FormatLine(<<"+", "push">>, LogPath)}
       /\ inv.raised = "none"
          => file = inv.before \o FormatLine(<<"+", "push">>, LogPath)

\* an incremental backup has been skipped and execute has returned with the
\* record of the log in the ledger file
SkipRecordsLogWitness ==
    /\ Skipped
    /\ ~inv.full_backup
    /\ inv.raised = "none"
    /\ file # inv.before

\* the record execute_backup makes for the artifact it committed
ArtifactRecord ==
    FormatLine(IF inv.outcome = "incremental" THEN <<"+", "sync">> ELSE <<"+", "push">>,
               inv.artifact)

\* C14: every successful non-skipped commit is followed by exactly one +
\* record for its artifact (+push of <dst>/<timestamp>/ after a full
\* backup, +sync of <dst>/<last>/ after an incremental, +push of
\* <dst>/<timestamp>.tbz after an archive), appended after the commit; a
\* failed commit records no artifact path.
RecordFollowsCommit ==
    inv.phase = "executed" /\ inv.cmd = "backup"
    => /\ inv.outcome \in {"full", "incremental", "tar"}
          => file = inv.before \o ArtifactRecord
       /\ inv.outcome = "failed" => file = inv.before

\* the invocation has ended after its command object was constructed
EndedConstructed == inv.phase = "ended" /\ last.call # "main"

\* the pending paths a replay of the ledger file as it was when the
\* invocation started gives to S3.run
PendingBefore == Pending(raw_current_state(NoCache, inv.before, TRUE, BackupTree).state)

Unfinished ==
    {e \in inv.attempted :
        e \in Pending(raw_current_state(NoCache, file, FALSE, BackupTree).state)}

\* C16: a per-path push/sync failure during the sync step writes an error
\* block labelled with the failing path to the diagnostic stream, not to
\* standard output, and leaves the exit status alone: the process exits 0
\* if the rest of the invocation succeeded.
ErrorBlockToStderr ==
    EndedConstructed
    => /\ \A e \in Unfinished : e.path \in inv.stderr /\ e.path \notin inv.stdout
       /\ inv.raised = "none" => inv.status = 0

\* the step of an invocation that ends while the command object is being
\* constructed: a missing setting, or the lock on the ledger file held by
\* another process
AbortStep == inv'.n = inv.n + 1 /\ inv'.phase = "ended" /\ inv'.raised # "none"

\* C17: a configuration error (missing ROOT_PATH, S3_URI_PREFIX or
\* S3CMD_CONFIG) or a ledger lock held by another process aborts the
\* invocation before any side effect: the ledger file is neither created
\* nor modified, no staging file and no history entry is created, and no
\* offsite operation is attempted.
AbortBeforeSideEffect ==
    [][AbortStep => /\ fs'.sync_state = fs.sync_state
                    /\ file' = file
                    /\ disk' = disk
                    /\ fs'.backup_dir = fs.backup_dir
                    /\ fs'.temps = fs.temps
                    /\ fs'.entries = fs.entries
                    /\ ~inv'.sync_called
                    /\ inv'.attempted = {}]_vars

\* the step of execute in which an external tool fails: tar or the dump
\* tool while the artifact is built, rdiff-backup or tar at the commit
ToolFailureStep ==
    /\ inv.phase \in {"constructed", "waiting"}
    /\ inv'.phase = "executed"
    /\ inv'.outcome = "failed"
    /\ inv'.raised \in {"CalledProcessError", "Exit"}

\* C18: when an external tool fails during a backup invocation, the
\* invocation aborts leaving no partial artifact behind: the temporary
\* directory of the database flow is removed, and the destination holds no
\* new timestamp-named entry (no empty full-backup directory, no partial
\* archive) that a later run would take for the last backup.
ToolFailureLeavesNothing ==
    [][ToolFailureStep => /\ fs'.temps = 0
                          /\ DOMAIN fs'.entries = DOMAIN fs.entries]_vars

\* entry d of the base directory ends in ".<fingerprint of src>"
Matches(d, src) ==
    Len(d) >= 2 /\ d[Len(d) - 1] = "." /\ d[Len(d)] = get_hash(src)

\* the entries that matched when the command started
Candidates == {d \in DOMAIN wd.before : Matches(d, wd.src)}

FailedAfterCreation ==
    /\ wd.cmd = "fs-init"
    /\ wd.failing # "none"
    /\ IsAbsolute(wd.src)
    /\ Candidates = {}

\* C20: if a step of fs-init fails after the working directory has been
\* created (the src symlink, the configuration file), the partially built
\* working directory no longer exists when the command ends, and the
\* command ends with the error of the step that failed.
InitRollback ==
    FailedAfterCreation
    => /\ <<wd.name, ".", get_hash(wd.src)>> \notin DOMAIN wd.entries
       /\ wd.ends.kind = "raised"
       /\ wd.ends.step = wd.failing


\* --------------------------------------- fs-init, one invocation after another
\* the configuration directory does not exist yet, or is empty
InitInits ==
    /\ file = <<>>
    /\ disk = <<>>
    /\ lock = 0
    /\ opened = [p \in Procs |-> FALSE]
    /\ cache = [p \in Procs |-> NoCache]
    /\ observed = [p \in Procs |-> FALSE]
    /\ tree = InitTree
    /\ pc = [p \in Procs |-> "idle"]
    /\ run = [p \in Procs |-> NoRun]
    /\ last = Last(0, "none", Root, OK, FALSE)
    /\ cad = NoCadence
    /\ fs = NoFs
    /\ inv = NoInv
    /\ clock = 0
    /\ \E listable \in BOOLEAN : wd = [NoWd EXCEPT !.listable = listable]

\* one more fs-init command, from main to its end, on what the commands
\* before it left
FsInitAgain(src, name, backup_type, failing) ==
    /\ Initialized(src, name, failing,
                   fs_init(wd.entries, wd.listable, src, name, backup_type, failing))
    /\ UNCHANGED <<file, disk, lock, opened, cache, observed, tree, pc, run, last,
                   cad, fs, inv, clock>>

NextInits ==
    \E src \in Srcs, name \in InitNames, backup_type \in BackupTypes,
       failing \in InitSteps \cup {"none"} :
       FsInitAgain(src, name, backup_type, failing)

SpecInits == InitInits /\ [][NextInits]_vars

\* the working directories of source src: the entries whose src link is src
DirsOf(entries, src) == {d \in DOMAIN entries : entries[d].link = src}

\* the source of the command resolved to a working directory when the
\* command started
Resolved ==
    \E d \in Candidates : Candidates = {d} /\ wd.before[d].link = wd.src

\* C21: after any sequence of fs-init invocations run one after another on
\* a configuration directory that started empty, at most one working
\* directory exists per source path; and an fs-init for a source that
\* already resolves to a working directory fails, whatever the name given,
\* creates nothing and leaves the existing directory as it was.
OneDirPerSource ==
    /\ \A src \in LinkTargets : Cardinality(DirsOf(wd.entries, src)) <= 1
    /\ (wd.cmd = "fs-init" /\ Resolved)
       => /\ wd.ends.kind = "fatal"
          /\ wd.ends.message = "there is already a directory for this path"
          /\ wd.entries = wd.before

\* a second fs-init for a source that has its directory, under another
\* name, next to the directory of another source: it was fatal and the
\* two directories are as they were
OneDirPerSourceWitness ==
    /\ wd.cmd = "fs-init"
    /\ Resolved
    /\ \E d \in Candidates : d[1] # wd.name
    /\ Cardinality(DOMAIN wd.entries) = 2
    /\ wd.ends.kind = "fatal"

\* C22: an invocation that succeeds exits with status 0, and every
\* recognized fatal condition (missing configuration, ledger lock held by
\* another process, duplicate or wrong working directory, non-zero exit
\* of an external tool, ledger misuse) ends the invocation with status 1
\* and a message "<program>: <message>" on the diagnostic stream.
FatalReported ==
    inv.phase = "ended"
    => IF inv.raised = "none"
       THEN inv.status = 0 /\ main_stderr(inv.raised) = "none"
       ELSE inv.status = 1 /\ main_stderr(inv.raised) = "prog: message"

\* C23: constructing the syncer on a configuration without S3_URI_PREFIX
\* fails with ImproperlyConfigured naming S3_URI_PREFIX; on one with
\* S3_URI_PREFIX but without ROOT_PATH it fails with ImproperlyConfigured
\* naming ROOT_PATH; in both cases no observer is registered on the ledger
\* and the ledger is unchanged.
ConstructionChecked ==
    [][\A p \in Procs, config \in Configs \ {"complete"} :
          S3Init(p, config)
          => /\ last'.result = "ImproperlyConfigured"
             /\ last'.named = IF config = "no ROOT_PATH" THEN "ROOT_PATH"
                              ELSE "S3_URI_PREFIX"
             /\ ~observed'[p]
             /\ file' = file
             /\ disk' = disk
             /\ cache' = cache]_vars

\* a syncer was constructed on a ledger that holds records, with neither
\* setting: the error names S3_URI_PREFIX and nobody observes the ledger
ConstructionCheckedWitness ==
    /\ last.call = "S3"
    /\ last.config = "neither"
    /\ last.result = "ImproperlyConfigured"
    /\ last.named = "S3_URI_PREFIX"
    /\ ~observed[last.proc]
    /\ file # <<>>

\* the record a line of a well-formed ledger holds: the sign and the kind
\* after the timestamp, the path up to the line feed
RecordOf(line) ==
    [sign |-> line[3], kind |-> line[4], path |-> SubSeq(line, 6, Len(line) - 1)]

RecordsOf(bytes) ==
    [i \in 1..Len(FileLines(bytes)) |-> RecordOf(FileLines(bytes)[i])]

\* record i of recs finds its path pending for its kind
PendingAt(recs, i) ==
    \E j \in 1..(i - 1) :
        /\ recs[j].kind = recs[i].kind
        /\ recs[j].path = recs[i].path
        /\ recs[j].sign = "+"
        /\ \A l \in (j + 1)..(i - 1) :
               ~(recs[l].kind = recs[i].kind /\ recs[l].path = recs[i].path
                 /\ recs[l].sign = "-")

\* a ledger as the four methods write it: timestamp, space, one of the
\* four operations, space, a relative path, line feed; a - record only
\* for a path that is pending
WellFormed(bytes) ==
    /\ \A i \in 1..Len(FileLines(bytes)) :
          LET line == FileLines(bytes)[i]
          IN  /\ Len(line) >= 6
              /\ line[1] = TS /\ line[2] = SP /\ line[5] = SP
              /\ line[Len(line)] = LF
              /\ line[3] \in Signs /\ line[4] \in Kinds
              /\ ~StartsWithSlash(SubSeq(line, 6, Len(line) - 1))
    /\ \A i \in 1..Len(FileLines(bytes)) :
          RecordsOf(bytes)[i].sign = "-" => PendingAt(RecordsOf(bytes), i)

\* the + records of kind k that made a path pending and that no later -
\* record of kind k resolves
Pendings(recs, k) ==
    {i \in 1..Len(recs) :
        /\ recs[i].kind = k
        /\ recs[i].sign = "+"
        /\ ~PendingAt(recs, i)
        /\ \A l \in (i + 1)..Len(recs) :
               ~(recs[l].kind = k /\ recs[l].path = recs[i].path
                 /\ recs[l].sign = "-")}

\* the paths pending for kind k, in the order of those records
Reference(recs, k) ==
    LET kept == SelectSeq([i \in 1..Len(recs) |-> i],
                          LAMBDA i : i \in Pendings(recs, k))
    IN  [n \in 1..Len(kept) |-> recs[kept[n]].path]

\* C24: for every well-formed ledger, the pending set of kind k that
\* current_state gives is exactly the set of the paths whose most recent
\* record of kind k is a + record, listed in the order of the + records
\* that made them pending.
ReferenceSemantics ==
    (last.call = "current_state" /\ WellFormed(file))
    => /\ last.result = OK
       /\ cache[last.proc].state =
              [push |-> Reference(RecordsOf(file), "push"),
               sync |-> Reference(RecordsOf(file), "sync")]

\* C25: reading never mutates the ledger: computing current_state leaves
\* the ledger file byte for byte as it was, and an invocation of
\* sync --list appends no record and performs no push and no sync.
ListReadsOnly ==
    inv.cmd = "sync --list"
    => /\ file = inv.before
       /\ inv.attempted = {}

\* ------------------------------------------- one caller, a longer ledger
\* the number of records the ledger file may hold before the one caller
\* stops calling
MaxLedger == 4

\* the relative paths
RelativePaths == {Root, PathDir}

\* one of the four methods, called by process 1
LedgerCall(call, op, path) ==
    /\ Records(file) < MaxLedger
    /\ Called(1, call, op, path)

\* one process at a time opens the ledger, attaches the syncer, calls the
\* four methods and reset, and exits; the directory under ROOT_PATH comes
\* and goes
NextLedger ==
    \/ SyncStateInit(1)
    \/ S3Init(1, "complete")
    \/ \E path \in RelativePaths : LedgerCall("push_path", <<"+", "push">>, path)
    \/ \E path \in RelativePaths : LedgerCall("sync_path", <<"+", "sync">>, path)
    \/ \E path \in RelativePaths : LedgerCall("push_done", <<"-", "push">>, path)
    \/ \E path \in RelativePaths : LedgerCall("sync_done", <<"-", "sync">>, path)
    \/ reset(1)
    \/ Exit(1)
    \/ \E kind \in {"none", "dir"} : ChangeTree(kind)

SpecLedger == Init /\ [][NextLedger]_vars

\* C26: in every ledger file reachable through push_path, sync_path,
\* push_done, sync_done and reset from an empty ledger, each -push
\* (-sync) record for a path is preceded by a +push (+sync) record for
\* the same path that no earlier - record has resolved.
DoneFollowsPending ==
    \A i \in 1..Len(FileLines(file)) :
        RecordsOf(file)[i].sign = "-" => PendingAt(RecordsOf(file), i)

\* the snapshot S3.run took, as the turns of its two loops
Turns(r) ==
    [k \in 1..(Len(r.push) + Len(r.sync)) |->
        IF k <= Len(r.push) THEN Logged("push", r.push[k])
        ELSE Logged("sync", r.sync[k - Len(r.push)])]

\* the number of turns of the run of p that are over
Over(p) ==
    IF pc[p] \in {"do_push", "push_done"} THEN run[p].i - 1
    ELSE IF pc[p] \in {"do_sync", "sync_done"} THEN Len(run[p].push) + run[p].i - 1
    ELSE Len(run[p].push) + Len(run[p].sync)

\* the number of turns whose backend operation has started
Started(p) == IF pc[p] \in {"push_done", "sync_done"} THEN Over(p) + 1 ELSE Over(p)

\* the paths on which the run has called the backend
Operated(r) ==
    {Logged("push", x) : x \in r.pushed} \cup {Logged("sync", x) : x \in r.synced}
    \cup Range(r.logged)

\* the done records of the turns that are over and did not fail
DoneLines(p) ==
    LET done == SelectSeq(SubSeq(Turns(run[p]), 1, Over(p)),
                          LAMBDA e : e \notin Range(run[p].logged))
    IN  [n \in 1..Len(done) |-> FormatLine(<<"-", done[n].loop>>, done[n].path)]

\* C27: S3.run goes through the snapshot of the pending paths one path at
\* a time: all the paths the ledger has pending for push, in the order in
\* which the ledger registered them, then all those it has pending for
\* sync, in that order; the done record of a path is in the ledger before
\* the backend operation on the next path starts; and no path outside
\* the snapshot is processed in that run.
RunSequential ==
    \A p \in Procs :
        run[p] # NoRun
        => /\ Operated(run[p]) = {Turns(run[p])[k] : k \in 1..Started(p)}
           /\ Appended(p) = DoneLines(p)
           /\ \A kind \in Kinds :
                  WellFormed(run[p].start)
                  => run[p][kind] = Reference(RecordsOf(run[p].start), kind)

\* ----------------------------------------------- the paths of the callers
\* the length of the paths the callers pass in
MaxPathLen == 2

\* the characters of those paths: a letter, the space, the carriage
\* return and the line feed
PathChars == {"d", SP, CR, LF}

\* the relative paths of up to MaxPathLen characters
LinePaths == UNION {[1..n -> PathChars] : n \in 0..MaxPathLen}

\* the number of records the caller of these paths writes
MaxLines == 2

\* one of the four methods, called by process 1 with one of those paths
LineCall(call, op, path) ==
    /\ Records(file) < MaxLines
    /\ Called(1, call, op, path)

\* one process opens the ledger, calls the four methods, reads the state
\* and exits; the next one reads what it wrote
NextLines ==
    \/ SyncStateInit(1)
    \/ \E path \in LinePaths : LineCall("push_path", <<"+", "push">>, path)
    \/ \E path \in LinePaths : LineCall("sync_path", <<"+", "sync">>, path)
    \/ \E path \in LinePaths : LineCall("push_done", <<"-", "push">>, path)
    \/ \E path \in LinePaths : LineCall("sync_done", <<"-", "sync">>, path)
    \/ current_state(1)
    \/ Exit(1)

SpecLines == Init /\ [][NextLines]_vars

\* what the replay reads in the bytes one call has written: the operation
\* and the path of the one line, or the way in which it is not one record
ParsedBack(bytes) ==
    IF Len(FileLines(bytes)) # 1 THEN <<"lines", Len(FileLines(bytes))>>
    ELSE IF Len(Split2(RStrip(FileLines(bytes)[1]))) # 3 THEN <<"ValueError">>
    ELSE <<Split2(RStrip(FileLines(bytes)[1]))[2],
           Split2(RStrip(FileLines(bytes)[1]))[3]>>

\* the operation each method records
OpOf(call) ==
    IF call = "push_path" THEN <<"+", "push">>
    ELSE IF call = "sync_path" THEN <<"+", "sync">>
    ELSE IF call = "push_done" THEN <<"-", "push">>
    ELSE <<"-", "sync">>

\* C28: for each of the operations +push, +sync, -push, -sync and every
\* relative path the methods accept, the empty path and paths with spaces
\* included, the line written to the ledger file is parsed back on replay
\* to exactly the same operation and path.
LineRoundTrip ==
    [][(last'.call \in Appends /\ last'.result = OK /\ file' # file)
       => ParsedBack(SubSeq(file', Len(file) + 1, Len(file')))
              = <<OpOf(last'.call), last'.path>>]_vars

\* ------------------------------------------ a ledger edited from outside
\* the number of records the four methods wrote before the foreign one
MaxGood == 2

\* the ledgers of up to n records that the four methods write when nobody
\* observes them
RECURSIVE Ledgers(_)
Ledgers(n) ==
    IF n = 0 THEN {<<>>}
    ELSE Ledgers(n - 1) \cup
         {x[1] \o FormatLine(<<x[2], x[3]>>, x[4]) :
             x \in {y \in Ledgers(n - 1) \X Signs \X Kinds \X RelativePaths :
                       update_state(NoCache, y[1], FALSE, InitTree,
                                    <<y[2], y[3]>>, y[4]).result = OK}}

\* the signs and the kinds a record written by something else may have
ForeignSigns == {"*"}
ForeignKinds == {"push", "sync", "pull"}

\* a ledger that holds one record with a foreign sign, after records the
\* four methods wrote and before at most one more; the directory under
\* ROOT_PATH may be gone
InitCorrupt ==
    /\ lock = 0
    /\ opened = [p \in Procs |-> FALSE]
    /\ cache = [p \in Procs |-> NoCache]
    /\ observed = [p \in Procs |-> FALSE]
    /\ pc = [p \in Procs |-> "idle"]
    /\ run = [p \in Procs |-> NoRun]
    /\ last = Last(0, "none", Root, OK, FALSE)
    /\ cad = NoCadence
    /\ fs = NoFs
    /\ inv = NoInv
    /\ clock = 0
    /\ wd = NoWd
    /\ \E kind \in {"dir", "none"} : tree = [InitTree EXCEPT ![PathDir] = kind]
    /\ \E before \in Ledgers(MaxGood), sign \in ForeignSigns,
          kind \in ForeignKinds, path \in Paths,
          after \in {<<>>, FormatLine(<<"+", "push">>, Root)} :
          file = before \o FormatLine(<<sign, kind>>, path) \o after
    /\ disk = file

\* a process opens the ledger, attaches the syncer or not, reads the
\* state, once or more, and exits
NextCorrupt ==
    \/ SyncStateInit(1)
    \/ S3Init(1, "complete")
    \/ current_state(1)
    \/ Exit(1)

SpecCorrupt == InitCorrupt /\ [][NextCorrupt]_vars

\* the first record whose sign is neither + nor -
FirstForeign(recs) ==
    CHOOSE i \in 1..Len(recs) :
        /\ recs[i].sign \notin Signs
        /\ \A j \in 1..(i - 1) : recs[j].sign \in Signs

\* the pending sets of the first n records
ReferenceState(recs, n) ==
    [push |-> Reference(SubSeq(recs, 1, n), "push"),
     sync |-> Reference(SubSeq(recs, 1, n), "sync")]

\* C29: the replay of a ledger that holds a record whose sign is neither
\* + nor - fails with the error of a corrupt ledger, whatever the kind and
\* the path of the record, and the record changes neither pending set:
\* the state read is the one of the records before it (of those before an
\* earlier record on which an observer has raised).
ForeignSignFails ==
    [][(/\ current_state(1)
        /\ ~cache[1].loaded
        /\ \E i \in 1..Len(RecordsOf(file)) : RecordsOf(file)[i].sign \notin Signs)
       => /\ last'.result \in {"ValueError", "KeyError"}
          /\ RecordsOf(file)[FirstForeign(RecordsOf(file))].kind \in Kinds
             => last'.result = "ValueError"
          /\ file' = file
          /\ IF observed[1]
             THEN \E n \in 0..(FirstForeign(RecordsOf(file)) - 1) :
                     cache'[1].state = ReferenceState(RecordsOf(file), n)
             ELSE cache'[1].state =
                     ReferenceState(RecordsOf(file),
                                    FirstForeign(RecordsOf(file)) - 1)]_vars

\* the replay has failed on a record "*push d" that follows "+push d":
\* d is still pending
ForeignSignFailsWitness ==
    /\ last.call = "current_state"
    /\ last.result = "ValueError"
    /\ Len(RecordsOf(file)) >= 2
    /\ RecordsOf(file)[1] = [sign |-> "+", kind |-> "push", path |-> PathDir]
    /\ RecordsOf(file)[2] = [sign |-> "*", kind |-> "push", path |-> PathDir]
    /\ cache[1].state.push = <<PathDir>>

\* ------------------------------------------ the while loops, turn by turn
\* what dst holds when a loop starts: nothing, or a last backup made at
\* second t, by tar, or by rdiff-backup with at most one later session
WaitEntries(flow) ==
    {<<>>}
    \cup {WithEntry(<<>>, t, [kind |-> IF flow = "tar" THEN "tbz" ELSE "dir",
                              sessions |-> sessions, data |-> "a"]) :
             <<t, sessions>> \in
                 {x \in (0..(MaxClock - 1)) \X
                        ({<<>>} \cup {<<t1>> : t1 \in 0..(MaxClock - 1)}
                         \cup {<<t1, t2>> : t1, t2 \in 0..(MaxClock - 1)}) :
                     IF flow = "tar" THEN x[2] = <<>>
                     ELSE /\ x[2] # <<>>
                          /\ x[2][1] = x[1]
                          /\ Len(x[2]) = 2 => x[2][1] <= x[2][2]}}

\* the last second that dst records
LastStamp(entries) ==
    IF DOMAIN entries = {} THEN 0
    ELSE LET t == SortedLast(DOMAIN entries)
         IN  IF entries[t].sessions = <<>> THEN t
             ELSE entries[t].sessions[Len(entries[t].sessions)]

\* execute_backup has reached one of its while loops: the clock is at or
\* past every second that dst records, anywhere within its second; an
\* incremental backup is made on a last backup only
InitWait ==
    /\ file = <<>>
    /\ disk = <<>>
    /\ lock = 0
    /\ opened = [p \in Procs |-> FALSE]
    /\ cache = [p \in Procs |-> NoCache]
    /\ observed = [p \in Procs |-> FALSE]
    /\ tree = InitTree
    /\ pc = [p \in Procs |-> "idle"]
    /\ run = [p \in Procs |-> NoRun]
    /\ last = Last(0, "none", Root, OK, FALSE)
    /\ cad = NoCadence
    /\ wd = NoWd
    /\ \E flow \in Flows :
          \E entries \in WaitEntries(flow), full \in BOOLEAN, half \in {0, 1} :
              /\ (flow = "tar" \/ entries = <<>>) => full
              /\ fs = [NoFs EXCEPT !.flow = flow, !.entries = entries]
              /\ inv = [NoInv EXCEPT
                          !.phase = "waiting", !.cmd = "backup", !.half = half,
                          !.full_backup = full,
                          !.last = IF DOMAIN entries = {} THEN <<>>
                                   ELSE <<SortedLast(DOMAIN entries)>>]
              /\ clock \in LastStamp(entries)..(MaxClock - 1)

\* one turn of a while loop: now = utcnow() without its microseconds, then
\* the test, which breaks out of the loop or goes on to time.sleep(0.5)
Sample ==
    /\ inv.phase = "waiting"
    /\ inv' = [inv EXCEPT
                 !.now = clock,
                 !.turns = @ + 1,
                 !.phase = IF waited(fs.flow, inv.full_backup, fs.entries,
                                     inv.last, clock)
                           THEN "exited" ELSE "sleeping"]
    /\ UNCHANGED <<file, disk, lock, opened, cache, observed, tree, pc, run, last,
                   cad, fs, clock, wd>>

\* time.sleep(0.5) returns: half a second has passed
Sleep ==
    /\ inv.phase = "sleeping"
    /\ inv' = [inv EXCEPT !.phase = "waiting", !.half = 1 - @]
    /\ clock' = IF clock < MaxClock THEN clock + inv.half ELSE clock
    /\ UNCHANGED <<file, disk, lock, opened, cache, observed, tree, pc, run, last,
                   cad, fs, wd>>

NextWait ==
    \/ Sample
    \/ Sleep
    \/ Tick

SpecWait == InitWait /\ [][NextWait]_vars

\* the process keeps running: a loop that can take its next turn takes
\* it, and a sleep comes to its end
SpecWaitLive == SpecWait /\ WF_vars(Sample) /\ WF_vars(Sleep)

\* second now is the one of the last full backup, or of the last session
\* of rdiff-backup on it
CollidesAt(flow, entries, latest, now) ==
    IF latest = <<>> THEN FALSE
    ELSE IF now = latest[1] THEN TRUE
    ELSE IF flow = "tar" THEN FALSE
    ELSE now = entries[latest[1]].sessions[Len(entries[latest[1]].sessions)]

\* the turns a loop may take: the second of the collision is over after
\* two sleeps of half a second
LoopTurns == 3

\* C30: each wait loop samples the clock again at every turn and ends as
\* soon as the second sampled no longer collides with the timestamp of
\* the last full or incremental backup; it never ends while the second
\* sampled is still that of the last one; and under a clock that keeps
\* advancing it ends, after a bounded number of turns.
WaitLoops ==
    /\ [][(inv.phase = "waiting" /\ inv'.phase # "waiting")
          => /\ inv'.now = clock
             /\ inv'.phase = IF CollidesAt(fs.flow, fs.entries, inv.last, inv'.now)
                             THEN "sleeping" ELSE "exited"]_vars
    /\ [](inv.turns <= LoopTurns)
    /\ (inv.phase # "exited") ~> (inv.phase = "exited")

\* a loop has ended at its third turn, in the second after the one of the
\* last session, which it had sampled twice
WaitLoopsWitness ==
    /\ inv.phase = "exited"
    /\ inv.turns = 3
    /\ ~inv.full_backup
    /\ inv.now = last_incremental(fs.entries, inv.last[1]) + 1
    /\ Len(fs.entries[inv.last[1]].sessions) = 2

\* ------------------------------ execute_backup after its loop, step by step
\* a utime that leaves the modification time as it is
utimeKeep(mtime, now) == mtime

\* os.utime(self.outfile, None): the modification time is set to now
utime(mtime, now) == now

\* rdiff-backup looks at the modification time first, with a resolution of
\* a second: a file whose time is the one recorded in the mirror is taken
\* for unchanged and is not examined further
rdiff_unchanged(mtime, mirror) == mtime = mirror

\* execute_backup of RdiffBackupCommand has left its while loop: dst holds
\* nothing, or a last backup whose artifact has the modification time
\* recorded at its last session; the staged artifact was written by this
\* invocation, at or after that time, and its content is or is not that
\* of the last backup
InitMerge ==
    /\ file = <<>>
    /\ disk = <<>>
    /\ lock = 1
    /\ opened = [p \in Procs |-> p = 1]
    /\ cache = [p \in Procs |-> NoCache]
    /\ observed = [p \in Procs |-> p = 1]
    /\ tree = InitTree
    /\ pc = [p \in Procs |-> "idle"]
    /\ run = [p \in Procs |-> NoRun]
    /\ last = Last(0, "none", Root, OK, FALSE)
    /\ cad = NoCadence
    /\ wd = NoWd
    /\ \E flow \in {"rdiff", "db"} :
          \E entries \in WaitEntries(flow), full \in BOOLEAN,
             payload \in Payloads :
              /\ entries = <<>> => full
              /\ fs = [NoFs EXCEPT !.flow = flow, !.entries = entries,
                                   !.backup_dir = TRUE, !.sync_state = TRUE]
              /\ \E now \in LastStamp(entries)..(MaxClock - 1) :
                    \E mirror \in 0..LastStamp(entries) :
                        \E mtime \in mirror..now :
                            /\ inv = [NoInv EXCEPT
                                        !.phase = "exited", !.cmd = "backup",
                                        !.full_backup = full,
                                        !.payload = payload,
                                        !.last = IF DOMAIN entries = {} THEN <<>>
                                                 ELSE <<SortedLast(DOMAIN entries)>>,
                                        !.now = now,
                                        !.mirror = mirror,
                                        !.mtime = mtime]
                            /\ waited(flow, full, entries, inv.last, now)
                            /\ clock = now

\* one step of execute_backup: where it goes and what it is
Stepped(record, phase, step) ==
    [record EXCEPT !.phase = phase, !.steps = Append(@, step)]

\* self.compare(self.outfile, os.path.join(last_path, self.outfile_base)),
\* which the full branch leaves out when there is no last backup
Compare ==
    /\ inv.phase = "exited"
    /\ inv' = Stepped(inv,
                      IF inv.last # <<>>
                         /\ fs.entries[inv.last[1]].data = inv.payload
                      THEN "equal"
                      ELSE IF inv.full_backup THEN "new" ELSE "differs",
                      "compare")
    /\ UNCHANGED <<file, disk, lock, opened, cache, observed, tree, pc, run, last,
                   cad, fs, clock, wd>>

\* self.log(... "skipping creation of new ... backup")
LogSkip ==
    /\ inv.phase = "equal"
    /\ LET r == log(fs, cache[1], file, BackupTree,
                    IF inv.full_backup THEN "skipping creation of new full backup"
                    ELSE "skipping creation of new incremental backup")
       IN  /\ fs' = r.fs
           /\ cache' = [cache EXCEPT ![1] = r.cache]
           /\ file' = r.bytes
           /\ disk' = IF r.wrote THEN fsync(disk, r.bytes) ELSE disk
           /\ inv' = [Stepped(inv, "returned", "log") EXCEPT
                         !.raised = r.raised, !.outcome = "skipped"]
    /\ UNCHANGED <<lock, opened, observed, tree, pc, run, last, cad, clock, wd>>

\* os.utime(self.outfile, None), in the incremental branch
Utime ==
    /\ inv.phase = "differs"
    /\ inv' = [Stepped(inv, "touched", "utime") EXCEPT
                  !.mtime = utime(inv.mtime, clock)]
    /\ UNCHANGED <<file, disk, lock, opened, cache, observed, tree, pc, run, last,
                   cad, fs, clock, wd>>

\* os.mkdir(new_dir_path), in the full branch
Mkdir ==
    /\ inv.phase = "new"
    /\ IF inv.now \in DOMAIN fs.entries
       THEN /\ inv' = [Stepped(inv, "returned", "mkdir") EXCEPT
                          !.raised = "OSError", !.outcome = "failed"]
            /\ fs' = fs
       ELSE /\ inv' = Stepped(inv, "made", "mkdir")
            /\ fs' = [fs EXCEPT !.entries = WithEntry(@, inv.now,
                          [kind |-> "dir", sessions |-> <<>>, data |-> "partial"])]
    /\ UNCHANGED <<file, disk, lock, opened, cache, observed, tree, pc, run, last,
                   cad, clock, wd>>

\* self.rdiff_backup(backup_dir, last_path) and
\* self.rdiff_backup(backup_dir, new_dir_path): subprocess.check_call of
\* rdiff-backup, which fails, or records a session at the time it runs;
\* into a mirror that exists it takes the artifact only if it finds it
\* changed
RdiffBackup(tool_ok) ==
    /\ inv.phase \in {"touched", "made"}
    /\ LET target == IF inv.phase = "touched" THEN inv.last[1] ELSE inv.now
       IN  IF ~tool_ok
           THEN /\ inv' = [Stepped(inv, "returned", "rdiff-backup") EXCEPT
                              !.raised = "CalledProcessError",
                              !.outcome = "failed"]
                /\ fs' = fs
           ELSE /\ inv' = [Stepped(inv, "merged", "rdiff-backup") EXCEPT
                              !.mirror = inv.mtime]
                /\ fs' = IF inv.phase = "touched"
                            /\ rdiff_unchanged(inv.mtime, inv.mirror)
                         THEN fs
                         ELSE [fs EXCEPT
                                 !.entries[target].sessions =
                                     Append(@, IF inv.phase = "touched"
                                               THEN clock ELSE target),
                                 !.entries[target].data = inv.payload,
                                 !.made = Append(@, target)]
    /\ UNCHANGED <<file, disk, lock, opened, cache, observed, tree, pc, run, last,
                   cad, clock, wd>>

\* self.sync_path(os.path.join(self.args.dst, last) + "/") in the
\* incremental branch, self.push_path(... new_dir_name + "/") in the full
\* one
Register ==
    /\ inv.phase = "merged"
    /\ LET r == IF inv.full_backup
                THEN update_state(cache[1], file, TRUE, BackupTree,
                                  <<"+", "push">>, DirPath(inv.now))
                ELSE update_state(cache[1], file, TRUE, BackupTree,
                                  <<"+", "sync">>, DirPath(inv.last[1]))
       IN  /\ cache' = [cache EXCEPT ![1] = r.cache]
           /\ file' = r.bytes
           /\ disk' = IF r.wrote THEN fsync(disk, r.bytes) ELSE disk
           /\ inv' = [Stepped(inv, "returned",
                              IF inv.full_backup THEN "push_path" ELSE "sync_path")
                         EXCEPT !.raised = IF r.result = OK THEN "none"
                                           ELSE r.result,
                                !.outcome = IF inv.full_backup THEN "full"
                                            ELSE "incremental"]
    /\ UNCHANGED <<lock, opened, observed, tree, pc, run, last, cad, fs, clock, wd>>

NextMerge ==
    \/ Compare
    \/ LogSkip
    \/ Utime
    \/ Mkdir
    \/ \E tool_ok \in BOOLEAN : RdiffBackup(tool_ok)
    \/ Register
    \/ Tick

SpecMerge == InitMerge /\ [][NextMerge]_vars

\* the step that execute_backup takes, if it takes one
StepTaken(before, after, step) ==
    /\ Len(after) = Len(before) + 1
    /\ after[Len(after)] = step

\* C31: whenever a staged artifact that differs from the last committed
\* one is handed to rdiff-backup to be merged into an existing history
\* directory, the step just before the handoff is the utime that has set
\* its modification time to the time of that moment; an artifact that is
\* skipped for being equal is neither touched nor handed over.
TouchedBeforeMerge ==
    /\ [][StepTaken(inv.steps, inv'.steps, "utime") => inv'.mtime = clock]_vars
    /\ [][(StepTaken(inv.steps, inv'.steps, "rdiff-backup") /\ ~inv.full_backup)
          => /\ fs.entries[inv.last[1]].data # inv.payload
             /\ inv.steps # <<>>
             /\ inv.steps[Len(inv.steps)] = "utime"]_vars
    /\ [][(inv.last # <<>> /\ fs.entries[inv.last[1]].data = inv.payload)
          => /\ inv'.mtime = inv.mtime
             /\ ~StepTaken(inv.steps, inv'.steps, "utime")
             /\ ~StepTaken(inv.steps, inv'.steps, "rdiff-backup")]_vars

\* an artifact written in the second recorded for the last one, with
\* another content, has been touched a second later and merged: the
\* history directory has one more session and holds the new content
TouchedBeforeMergeWitness ==
    /\ inv.phase = "merged"
    /\ ~inv.full_backup
    /\ inv.steps = <<"compare", "utime", "rdiff-backup">>
    /\ inv.mtime = inv.now
    /\ inv.now > 0
    /\ fs.entries[inv.last[1]].data = inv.payload
    /\ Len(fs.entries[inv.last[1]].sessions) = 2

\* -------------------------------------- invocations that run concurrently
\* the invocations of the program started in one behaviour
MaxStarts == 3

\* the commands whose finally clause calls S3.run
SyncingCommands == {"backup", "sync", "sync --full"}

\* a main that goes on to execute whatever the constructor raised
main_nextAlways(raised) == "constructed"

\* main: cmd = args.class_(args) stands before the try whose finally
\* clause calls cmd.sync(), so an exception of the constructor leaves main
\* with neither execute nor sync
main_next(raised) == IF raised = OK THEN "constructed" ELSE "refused"

\* one configuration directory, one destination of the rdiff flow, no
\* invocation running; the ledger file is absent or holds the record of a
\* log that is still to push
InitConcurrent ==
    /\ lock = 0
    /\ opened = [p \in Procs |-> FALSE]
    /\ cache = [p \in Procs |-> NoCache]
    /\ observed = [p \in Procs |-> FALSE]
    /\ pc = [p \in Procs |-> "idle"]
    /\ run = [p \in Procs |-> NoRun]
    /\ last = Last(0, "none", Root, OK, FALSE)
    /\ inv = NoInv
    /\ clock = 0
    /\ wd = NoWd
    /\ tree = InitTree
    /\ \E config \in BackupConfigs : cad = [NoCadence EXCEPT !.config = config]
    /\ \E pending \in BOOLEAN :
          /\ file = IF pending THEN FormatLine(<<"+", "push">>, LogPath) ELSE <<>>
          /\ disk = file
          /\ fs = [NoFs EXCEPT !.sync_state = pending]

\* process p starts the program: main up to cmd = args.class_(args), the
\* constructor of BaseBackupCommand with its SyncState and its S3Cmd
Start(p) ==
    /\ pc[p] = "idle"
    /\ inv.n < MaxStarts
    /\ LET r == lockf(lock, p)
       IN  /\ opened' = [opened EXCEPT ![p] = (r = OK)]
           /\ observed' = [observed EXCEPT ![p] = (r = OK)]
           /\ lock' = IF r = OK THEN p ELSE lock
           /\ pc' = [pc EXCEPT ![p] = main_next(r)]
           /\ last' = Last(p, "main", Root, r, FALSE)
    /\ inv' = [inv EXCEPT !.n = @ + 1]
    /\ fs' = [fs EXCEPT !.sync_state = TRUE]
    /\ cache' = [cache EXCEPT ![p] = NoCache]
    /\ run' = [run EXCEPT ![p] = NoRun]
    /\ UNCHANGED <<file, disk, tree, cad, clock, wd>>

\* what cmd.execute() does for each command: a backup of the rdiff flow,
\* Sync.execute with --full, Sync.execute without option
ExecuteOf(p, cmd, payload) ==
    IF cmd = "backup"
    THEN LET files == DOMAIN fs.entries
             latest == IF files = {} THEN <<>> ELSE <<SortedLast(files)>>
         IN  rdiff_execute_backup(
                 fs,
                 [NoInv EXCEPT !.payload = payload, !.last = latest,
                               !.full_backup =
                                   full_backup(HistoryOf(fs.entries), cad.config,
                                               clock)],
                 cache[p], file, BackupTree, clock, TRUE)
    ELSE Returns(fs,
                 IF cmd = "sync --full"
                 THEN update_state(cache[p], file, TRUE, BackupTree,
                                   <<"+", "sync">>, Root)
                 ELSE [cache |-> cache[p], bytes |-> file, wrote |-> FALSE,
                       result |-> OK],
                 "none", <<>>)

\* r is what cmd.execute() of process p has returned or raised
Executes(p, r) ==
    /\ fs' = r.fs
    /\ cache' = [cache EXCEPT ![p] = r.cache]
    /\ file' = r.bytes
    /\ disk' = IF r.wrote THEN fsync(disk, r.bytes) ELSE disk
    /\ last' = Last(p, "execute", r.artifact, r.raised, FALSE)

\* cmd.execute() of process p
Execute(p, cmd, payload) ==
    /\ pc[p] = "constructed"
    /\ cmd = "backup"
       => LET files == DOMAIN fs.entries
          IN  /\ files # {} => fs.entries[SortedLast(files)].sessions # <<>>
              /\ waited("rdiff",
                        full_backup(HistoryOf(fs.entries), cad.config, clock),
                        fs.entries,
                        IF files = {} THEN <<>> ELSE <<SortedLast(files)>>,
                        clock)
    /\ cmd # "backup" => payload = "a"
    /\ Executes(p, ExecuteOf(p, cmd, payload))
    /\ pc' = [pc EXCEPT ![p] = "executed"]
    /\ UNCHANGED <<lock, opened, observed, tree, run, cad, inv, clock, wd>>

\* r is what S3.run of process p has done
Syncs(p, r) ==
    /\ file' = r.bytes
    /\ disk' = IF r.bytes # file THEN fsync(disk, r.bytes) ELSE disk
    /\ cache' = [cache EXCEPT ![p] = r.cache]
    /\ run' = [run EXCEPT ![p] =
                  [NoRun EXCEPT
                     !.start = file,
                     !.push = r.snapshot.push,
                     !.sync = r.snapshot.sync,
                     !.pushed = {e.path : e \in {x \in r.attempted \ r.logged :
                                                    x.loop = "push"}},
                     !.synced = {e.path : e \in {x \in r.attempted \ r.logged :
                                                    x.loop = "sync"}}]]
    /\ last' = Last(p, "sync", Root, r.result, FALSE)

\* the finally clause of main for process p: cmd.sync(), S3.run; fails are
\* the paths on which the backend raises
MainSync(p, fails) ==
    /\ pc[p] = "executed"
    /\ Syncs(p, S3_run_to_end(cache[p], file, BackupTree, fails))
    /\ pc' = [pc EXCEPT ![p] = "synced"]
    /\ UNCHANGED <<lock, opened, observed, tree, cad, fs, inv, clock, wd>>

\* process p ends, at the end of main or killed before: the operating
\* system closes its files and drops its lock
End(p) ==
    /\ pc[p] # "idle"
    /\ opened' = [opened EXCEPT ![p] = FALSE]
    /\ observed' = [observed EXCEPT ![p] = FALSE]
    /\ lock' = IF lock = p THEN 0 ELSE lock
    /\ cache' = [cache EXCEPT ![p] = NoCache]
    /\ pc' = [pc EXCEPT ![p] = "idle"]
    /\ run' = [run EXCEPT ![p] = NoRun]
    /\ last' = Last(p, "exit", Root, OK, FALSE)
    /\ UNCHANGED <<file, disk, tree, cad, fs, inv, clock, wd>>

NextConcurrent ==
    \/ \E p \in Procs : Start(p)
    \/ \E p \in Procs, cmd \in SyncingCommands, payload \in Payloads :
          Execute(p, cmd, payload)
    \/ \E p \in Procs :
          \E fails \in SUBSET Pending(raw_current_state(cache[p], file, TRUE,
                                                        BackupTree).state) :
              MainSync(p, fails)
    \/ \E p \in Procs : End(p)
    \/ Tick

SpecConcurrent == InitConcurrent /\ [][NextConcurrent]_vars

\* the step appends to the ledger, adds to the history or to the log of
\* the destination, or operates on the offsite storage
Works(bytes, after, f, g, r, s) ==
    \/ after # bytes
    \/ g.entries # f.entries
    \/ g.log # f.log
    \/ \E p \in Procs : s[p] # r[p] /\ s[p].pushed \cup s[p].synced # {}

\* C32: in every interleaving of invocations that share a configuration
\* directory, at most one process holds the lock on the ledger; every
\* step that appends a record, creates a history entry or operates on the
\* offsite storage is a step of the process that holds the lock; and a
\* process that was refused the lock does none of these and only ends.
LedgerUnderLock ==
    /\ [](\A p, q \in Procs : (opened[p] /\ opened[q]) => p = q)
    /\ [](\A p \in Procs : (opened[p] <=> lock = p)
                           /\ (pc[p] \in {"constructed", "executed", "synced"}
                               <=> opened[p]))
    /\ [][Works(file, file', fs, fs', run, run')
          => /\ lock \in Procs
             /\ lock' = lock
             /\ last'.proc = lock]_vars
    /\ [][\A p \in Procs :
            (last'.proc = p /\ last'.call = "main" /\ last'.result # OK)
            => /\ lock \in Procs \ {p}
               /\ pc'[p] = "refused"
               /\ ~Works(file, file', fs, fs', run, run')]_vars
    /\ [][\A p \in Procs :
            pc[p] = "refused"
            => /\ pc'[p] \in {"refused", "idle"}
               /\ last'.proc = p => ~Works(file, file', fs, fs', run, run')]_vars

\* a process was refused the lock and has not ended yet, while the holder
\* has made a backup and copied it offsite
LedgerUnderLockWitness ==
    \E p, q \in Procs :
        /\ p # q
        /\ pc[p] = "synced"
        /\ run[p].pushed # {}
        /\ DOMAIN fs.entries # {}
        /\ pc[q] = "refused"
        /\ file # <<>>

\* the paths a ledger file has pending, for each kind, in the order of
\* their + records
ReferenceOf(bytes) ==
    [push |-> Reference(RecordsOf(bytes), "push"),
     sync |-> Reference(RecordsOf(bytes), "sync")]

\* C33: no pending work is lost across crashes: the end of a process at
\* any point, or a power failure, leaves pending in the ledger file every
\* path that has an acknowledged + record and no done record, a path whose
\* backend operation had succeeded without its done record being written
\* included; and the run started after the restart replays the file
\* without error and takes all those paths, so that each is attempted
\* again.
NoWorkLost ==
    /\ [][((PowerFailure \/ \E p \in Procs : Exit(p)) /\ WellFormed(file))
          => \A k \in Kinds :
                 Range(ReferenceOf(file)[k]) \subseteq Range(ReferenceOf(file')[k])]_vars
    /\ [][\A p \in Procs :
            (S3_run(p) /\ ~cache[p].loaded /\ WellFormed(file))
            => /\ run'[p].push = ReferenceOf(file).push
               /\ run'[p].sync = ReferenceOf(file).sync
               /\ (last'.proc = p /\ last'.call = "run") => last'.result = OK]_vars

\* ------------------------------------------- the sync step, run repeatedly
\* the records of the ledger when the registrations have stopped
MaxDrain == 3

\* a ledger of records that the four methods wrote, nobody holding it;
\* the directory under ROOT_PATH is there or has been removed since
InitDrain ==
    /\ lock = 0
    /\ opened = [p \in Procs |-> FALSE]
    /\ cache = [p \in Procs |-> NoCache]
    /\ observed = [p \in Procs |-> FALSE]
    /\ pc = [p \in Procs |-> "idle"]
    /\ run = [p \in Procs |-> NoRun]
    /\ last = Last(0, "none", Root, OK, FALSE)
    /\ cad = NoCadence
    /\ fs = NoFs
    /\ inv = NoInv
    /\ clock = 0
    /\ wd = NoWd
    /\ \E kind \in {"dir", "none"} : tree = [InitTree EXCEPT ![PathDir] = kind]
    /\ file \in Ledgers(MaxDrain)
    /\ disk = file

\* the process ends once S3.run has returned or raised
ExitIdle ==
    /\ pc[1] = "idle"
    /\ last.proc = 1
    /\ last.call = "run"
    /\ Exit(1)

\* the sync step: a process opens the ledger, attaches the syncer and
\* calls S3.run, once or more, then ends, and another one starts; the
\* backend raises or not on each path; reset may be called between runs
NextDrain ==
    \/ SyncStateInit(1)
    \/ S3Init(1, "complete")
    \/ S3_run(1)
    \/ \E raised \in BOOLEAN : S3_do_push(1, raised)
    \/ S3_push_done(1)
    \/ \E raised \in BOOLEAN : S3_do_sync(1, raised)
    \/ S3_sync_done(1)
    \/ reset(1)
    \/ ExitIdle

SpecDrain == InitDrain /\ [][NextDrain]_vars

\* S3.run can be called by process 1
RunEnabled == opened[1] /\ observed[1] /\ pc[1] = "idle"

\* the sync step is run again and again (strong fairness of S3.run, its
\* enabling condition written out), every step of it that can be taken
\* is taken, and the backend operation on a path that is tried again and
\* again succeeds in the end
SpecDrainLive ==
    /\ SpecDrain
    /\ WF_vars(SyncStateInit(1))
    /\ WF_vars(S3Init(1, "complete"))
    /\ ([]<>RunEnabled => []<><<S3_run(1)>>_vars)
    /\ SF_vars(S3_do_push(1, FALSE))
    /\ SF_vars(S3_do_sync(1, FALSE))
    /\ WF_vars(S3_push_done(1))
    /\ WF_vars(S3_sync_done(1))

\* the ledger file has no pending path
Drained == ReferenceOf(file) = EmptyState

\* C34: when the sync step is run repeatedly, with no new registration,
\* and the backend operation of each pending path succeeds in the end,
\* the ledger comes to have no pending path, through the done records of
\* the runs, and stays so; reset does not succeed before, and succeeds
\* from then on.
DrainsAndResets ==
    /\ <>[]Drained
    /\ [][reset(1) => (last'.result = OK <=> Drained)]_vars


\* ------------------------------------------- the count of incrementals
\* the seconds of a behaviour that fills an entry to MaxCount incrementals
\* and then sees one more backup
MaxSecond == MaxCount + 1

\* the invocations of such a behaviour
MaxBackups == MaxCount + 2

\* the configurations of a working directory: the span is either too short
\* for any incremental or lasts longer than the behaviour
CountConfigs ==
    [MAX_INCREMENTAL_COUNT : 0..MaxCount, MAX_INCREMENTAL_SPAN : 0..(MaxSecond + 1)]

\* an empty destination and a configuration that no step changes
InitCount ==
    /\ file = <<>>
    /\ disk = <<>>
    /\ lock = 0
    /\ opened = [p \in Procs |-> FALSE]
    /\ cache = [p \in Procs |-> NoCache]
    /\ observed = [p \in Procs |-> FALSE]
    /\ tree = InitTree
    /\ pc = [p \in Procs |-> "idle"]
    /\ run = [p \in Procs |-> NoRun]
    /\ last = Last(0, "none", Root, OK, FALSE)
    /\ \E config \in CountConfigs : cad = [NoCadence EXCEPT !.config = config]
    /\ \E flow \in {"rdiff", "db"} : fs = [NoFs EXCEPT !.flow = flow]
    /\ inv = NoInv
    /\ clock = 0
    /\ wd = NoWd

\* execute_backup of an rdiff or db backup up to its while loop: the
\* history read and the full/incremental decision; get_incrementals_for
\* raises on a directory that rdiff-backup never completed
CountStart(payload) ==
    /\ inv.phase \in {"none", "ended"}
    /\ inv.n < MaxBackups
    /\ LET files == DOMAIN fs.entries
           latest == IF files = {} THEN <<>> ELSE <<SortedLast(files)>>
           raised == IF latest # <<>> /\ fs.entries[latest[1]].sessions = <<>>
                     THEN "CalledProcessError" ELSE "none"
       IN  inv' = IF raised # "none"
                  THEN [NoInv EXCEPT !.n = inv.n + 1, !.phase = "ended",
                                     !.raised = raised, !.outcome = "failed"]
                  ELSE [NoInv EXCEPT !.n = inv.n + 1, !.phase = "waiting",
                                     !.payload = payload,
                                     !.last = latest,
                                     !.full_backup =
                                         full_backup(HistoryOf(fs.entries),
                                                     cad.config, clock)]
    /\ UNCHANGED <<file, disk, lock, opened, cache, observed, tree, pc, run, last,
                   cad, fs, clock, wd>>

\* execute_backup from the end of its while loop: the entries of dst it
\* leaves (the ledger is left out: the entries do not depend on it);
\* tool_ok says whether rdiff-backup succeeds
CountCommit(tool_ok) ==
    /\ inv.phase = "waiting"
    /\ waited(fs.flow, inv.full_backup, fs.entries, inv.last, clock)
    /\ LET r == rdiff_execute_backup(fs, inv, NoCache, <<>>, tree, clock, tool_ok)
       IN  /\ fs' = r.fs
           /\ inv' = [inv EXCEPT !.phase = "ended", !.outcome = r.outcome]
    /\ UNCHANGED <<file, disk, lock, opened, cache, observed, tree, pc, run, last,
                   cad, clock, wd>>

\* a second passes
Second ==
    /\ clock < MaxSecond
    /\ clock' = clock + 1
    /\ UNCHANGED <<file, disk, lock, opened, cache, observed, tree, pc, run, last,
                   cad, fs, inv, wd>>

NextCount ==
    \/ \E payload \in Payloads : CountStart(payload)
    \/ \E tool_ok \in BOOLEAN : CountCommit(tool_ok)
    \/ Second

SpecCount == InitCount /\ [][NextCount]_vars

\* C35: under a fixed configuration, after any sequence of rdiff or db
\* backup invocations, no entry of the destination holds more incrementals
\* (sessions after its full backup) than MAX_INCREMENTAL_COUNT; with
\* MAX_INCREMENTAL_COUNT = 0 every entry holds its full backup alone, and a
\* step that adds an incremental finds the entry below the maximum.
CountCapped ==
    /\ \A t \in DOMAIN fs.entries :
          /\ Len(fs.entries[t].sessions) - 1 <= cad.config.MAX_INCREMENTAL_COUNT
          /\ cad.config.MAX_INCREMENTAL_COUNT = 0
             => Len(fs.entries[t].sessions) <= 1
    /\ inv.outcome = "incremental"
       => /\ cad.config.MAX_INCREMENTAL_COUNT > 0
          /\ inv.last # <<>>
          /\ Len(fs.entries[inv.last[1]].sessions) >= 2

\* an entry was filled to a maximum of two or more incrementals, and the
\* next backup, still within the span, made a new entry
CountCappedWitness ==
    \E t \in DOMAIN fs.entries, u \in DOMAIN fs.entries :
       /\ cad.config.MAX_INCREMENTAL_COUNT >= 2
       /\ Len(fs.entries[t].sessions) - 1 = cad.config.MAX_INCREMENTAL_COUNT
       /\ t < u
       /\ u - t < cad.config.MAX_INCREMENTAL_SPAN
       /\ fs.entries[u].sessions # <<>>
       /\ inv.phase = "ended"
       /\ inv.outcome = "full"


\* C36: the state built by a replay is a function of the contents of the
\* ledger file alone: whoever observes the SyncState and whatever the
\* paths of the records have become under ROOT_PATH, reading current_state
\* from the file gives the outcome and the pending sets that the same
\* bytes give with no observer, and for a ledger the four methods wrote
\* (a + sync record of a path that is gone or is no directory included)
\* it raises nothing.
ReplayOfFileAlone ==
    [][\A p \in Procs :
          (current_state(p) /\ ~cache[p].loaded)
          => LET alone == raw_current_state(NoCache, file, FALSE, InitTree)
             IN  /\ last'.result = alone.result
                 /\ cache'[p].state = alone.state
                 /\ WellFormed(file) => last'.result = OK]_vars


\* C37: current_state never shows a partly replayed ledger: once a read of
\* current_state has failed on a record of the file, the next read on the
\* same SyncState object fails too, and what the object holds is never
\* taken for the state of the ledger.
FailedReplayStays ==
    [][(/\ last.proc = 1
        /\ last.call = "current_state"
        /\ last.result # OK
        /\ current_state(1))
       => last'.result # OK]_vars


\* ------------------------------------------- fs-init, two at the same time
\* an fs-init process that has not started: args.name, args.backup_type
\* and what the command ends with
Arguments(name, backup_type) ==
    [name |-> name, backup_type |-> backup_type,
     ends |-> Gives("none", <<>>, "none", {}, "none")]

\* two fs-init processes for one source, each with its name and type, on
\* a configuration directory that does not exist yet or is empty
InitRace ==
    /\ file = <<>>
    /\ disk = <<>>
    /\ lock = 0
    /\ opened = [p \in Procs |-> FALSE]
    /\ cache = [p \in Procs |-> NoCache]
    /\ observed = [p \in Procs |-> FALSE]
    /\ tree = InitTree
    /\ pc = [p \in Procs |-> "idle"]
    /\ run = [p \in Procs |-> NoRun]
    /\ last = Last(0, "none", Root, OK, FALSE)
    /\ cad = NoCadence
    /\ fs = NoFs
    /\ inv = NoInv
    /\ clock = 0
    /\ \E listable \in BOOLEAN, src \in LinkTargets,
          names \in [Procs -> InitNames], types \in [Procs -> BackupTypes] :
          wd = [NoWd EXCEPT !.listable = listable, !.src = src,
                            !.inits = [p \in Procs |->
                                          Arguments(names[p], types[p])]]

\* os.path.join(config_dir, name + "." + h)
InitDir(p) == <<wd.inits[p].name, ".", get_hash(wd.src)>>

\* the command of process p ends
InitEnds(p, entries, listable, ends) ==
    /\ wd' = [wd EXCEPT !.entries = entries, !.listable = listable,
                        !.inits[p].ends = ends]
    /\ pc' = [pc EXCEPT ![p] = "ended"]

\* it goes on to its next step
InitGoes(p, entries, listable, step) ==
    /\ wd' = [wd EXCEPT !.entries = entries, !.listable = listable]
    /\ pc' = [pc EXCEPT ![p] = step]

\* os.rmdir / shutil.rmtree of a working directory
WithoutDir(entries, d) == [x \in DOMAIN entries \ {d} |-> entries[x]]

\* FSBackupInit.execute up to existing = self.working_dir and its test
InitScan(p) ==
    /\ pc[p] = "idle"
    /\ LET existing == working_dir(wd.entries, wd.listable, wd.src)
       IN  IF existing.kind \in {"fatal", "raised"}
           THEN InitEnds(p, wd.entries, wd.listable, existing)
           ELSE IF existing.kind = "returned"
           THEN InitEnds(p, wd.entries, wd.listable,
                         Gives("fatal", <<>>,
                               "there is already a directory for this path",
                               {}, "none"))
           ELSE InitGoes(p, wd.entries, wd.listable, "scanned")
    /\ UNCHANGED <<file, disk, lock, opened, cache, observed, tree, run, last,
                   cad, fs, inv, clock>>

\* os.makedirs(working_dir), which raises OSError on a directory that
\* exists
InitMakedirs(p) ==
    /\ pc[p] = "scanned"
    /\ IF InitDir(p) \in DOMAIN wd.entries
       THEN InitEnds(p, wd.entries, wd.listable,
                     Gives("raised", <<>>, "OSError", {}, "makedirs"))
       ELSE InitGoes(p, WithDir(wd.entries, InitDir(p), NoLink, "none"), TRUE,
                     "made")
    /\ UNCHANGED <<file, disk, lock, opened, cache, observed, tree, run, last,
                   cad, fs, inv, clock>>

\* os.symlink(src, src_file); when it raises, shutil.rmtree(working_dir)
InitSymlink(p, raised) ==
    /\ pc[p] = "made"
    /\ InitGoes(p, IF raised THEN WithoutDir(wd.entries, InitDir(p))
                   ELSE WithDir(wd.entries, InitDir(p), wd.src, "none"),
                wd.listable, "linked")
    /\ UNCHANGED <<file, disk, lock, opened, cache, observed, tree, run, last,
                   cad, fs, inv, clock>>

\* open(config_path, "w") and the write of the configuration, to the end
\* of execute; failing is the step the operating system fails, if any
InitConfig(p, failing) ==
    /\ pc[p] = "linked"
    /\ LET d == InitDir(p)
           type == wd.inits[p].backup_type
       IN  IF d \notin DOMAIN wd.entries \/ failing = "open"
           THEN InitEnds(p, wd.entries, wd.listable,
                         Gives("raised", <<>>, "IOError", {}, "open"))
           ELSE IF failing = "write"
           THEN InitEnds(p, WithDir(wd.entries, d, wd.entries[d].link, "empty"),
                         wd.listable,
                         Gives("raised", <<>>, "IOError", {}, "write"))
           ELSE InitEnds(p, WithDir(wd.entries, d, wd.entries[d].link, type),
                         wd.listable,
                         Gives("returned", <<"0">>, "created", {d}, "none"))
    /\ UNCHANGED <<file, disk, lock, opened, cache, observed, tree, run, last,
                   cad, fs, inv, clock>>

NextRace ==
    \/ \E p \in Procs : InitScan(p)
    \/ \E p \in Procs : InitMakedirs(p)
    \/ \E p \in Procs, raised \in BOOLEAN : InitSymlink(p, raised)
    \/ \E p \in Procs, failing \in {"none", "open", "write"} : InitConfig(p, failing)

SpecRace == InitRace /\ [][NextRace]_vars

\* C38: however the steps of two fs-init commands for the same source
\* interleave, whatever the names given, once both have ended config_dir
\* holds at most one directory whose name ends in "." and the hash of the
\* source, and resolving the source does not end in the fatal error of
\* duplicate working directories.
OneDirAfterRace ==
    (\A p \in Procs : pc[p] = "ended")
    => /\ Cardinality({d \in DOMAIN wd.entries :
                          EndsWith(d, <<".", get_hash(wd.src)>>)}) <= 1
       /\ working_dir(wd.entries, wd.listable, wd.src).message
              # "duplicate working directories"


\* the method that registers a path for kind k, and the one that resolves it
PathCall(k) == IF k = "push" THEN "push_path" ELSE "sync_path"
DoneCall(k) == IF k = "push" THEN "push_done" ELSE "sync_done"

\* C39: registration is idempotent on the pending set: push_path (resp.
\* sync_path) of a path that is already pending for its kind appends one
\* more + record and leaves the pending sets, and the place of the path in
\* them, as they were, in the object and in what the file replays to; and
\* one push_done (resp. sync_done) that follows leaves the path not
\* pending, in the object and in what the file replays to.
RegistersOnce ==
    [][\A k \in Kinds, path \in RelativePaths :
          /\ (/\ LedgerCall(PathCall(k), <<"+", k>>, path)
              /\ last'.result = OK
              /\ path \in Range(raw_current_state(cache[1], file, observed[1],
                                                  tree).state[k]))
             => /\ file' = file \o FormatLine(<<"+", k>>, path)
                /\ cache'[1].state =
                       raw_current_state(cache[1], file, observed[1], tree).state
                /\ ReferenceOf(file') = ReferenceOf(file)
          /\ (/\ LedgerCall(DoneCall(k), <<"-", k>>, path)
              /\ last'.result = OK)
             => /\ path \notin Range(cache'[1].state[k])
                /\ path \notin Range(ReferenceOf(file')[k])]_vars

=============================================================================
